---------------------------- MODULE Spec2Model ----------------------------
(***************************************************************************)
(* Model of the codebase analyzer service (services/codebaseAnalyzer.js).  *)
(*                                                                         *)
(* A JavaScript string is a sequence of one-character TLA+ strings.  A     *)
(* character outside ASCII is written as the token "uXXXX" of its code     *)
(* point (u00E9, u20AC, ...).                                              *)
(***************************************************************************)
EXTENDS Integers, Sequences, FiniteSets, TLC

(***************************************************************************)
(* Characters                                                              *)
(***************************************************************************)
LowerLetters ==
  <<"a","b","c","d","e","f","g","h","i","j","k","l","m",
    "n","o","p","q","r","s","t","u","v","w","x","y","z">>

UpperLetters ==
  <<"A","B","C","D","E","F","G","H","I","J","K","L","M",
    "N","O","P","Q","R","S","T","U","V","W","X","Y","Z">>

Digits == <<"0","1","2","3","4","5","6","7","8","9">>

Range(f) == {f[x] : x \in DOMAIN f}

\* \w of a JavaScript regular expression: [A-Za-z0-9_]
WordChars == Range(LowerLetters) \cup Range(UpperLetters) \cup Range(Digits) \cup {"_"}

\* \s of a JavaScript regular expression, and what String.prototype.trim strips
SpaceChars == {" ", "\t", "\n", "\r", "\f", "u000B", "u00A0", "u2028", "u2029", "uFEFF"}

\* . of a JavaScript regular expression matches anything but a line terminator
LineTerminators == {"\n", "\r", "u2028", "u2029"}

\* bytes of one UTF-16 code unit under Buffer.byteLength(content, 'utf8')
TwoByteChars == {"u00A0", "u00C9", "u00E9"}
ThreeByteChars == {"u2028", "u2029", "u20AC", "uFEFF"}

\* String.prototype.toLowerCase on one character
LowerChar(ch) ==
  IF \E k \in DOMAIN UpperLetters : UpperLetters[k] = ch
    THEN LowerLetters[CHOOSE k \in DOMAIN UpperLetters : UpperLetters[k] = ch]
  ELSE IF ch = "u00C9" THEN "u00E9"
  ELSE ch

\* the uppercase letter of a lowercase one, any other character unchanged
LowerCharInv(ch) ==
  IF \E k \in DOMAIN LowerLetters : LowerLetters[k] = ch
    THEN UpperLetters[CHOOSE k \in DOMAIN LowerLetters : LowerLetters[k] = ch]
  ELSE ch

toLowerCase(s) == <<>> \o [k \in 1..Len(s) |-> LowerChar(s[k])]

\* F(x), with x evaluated once, before F is
Bind(x, F(_)) == CHOOSE r \in {F(y) : y \in {x}} : TRUE

SetMin(S) == CHOOSE x \in S : \A y \in S : x <= y
SetMax(S) == CHOOSE x \in S : \A y \in S : x >= y

(***************************************************************************)
(* String helpers: startsWith, trim, split('\n'), literal match            *)
(***************************************************************************)
\* the literal lit occurs in s at position p (1-based)
LitAt(s, p, lit) ==
  /\ p >= 1
  /\ p + Len(lit) - 1 <= Len(s)
  /\ \A k \in 1..Len(lit) : s[p + k - 1] = lit[k]

startsWith(s, lit) == LitAt(s, 1, lit)

Newline == {"\n"}

\* first position >= p of s whose character is not of the class, Len(s)+1 if none
SkipWhile(s, p, class) ==
  IF p > Len(s) THEN Len(s) + 1
  ELSE CHOOSE q \in p..(Len(s) + 1) :
         /\ q = Len(s) + 1 \/ s[q] \notin class
         /\ \A r \in p..(q - 1) : s[r] \in class

\* first position >= p of s whose character is of the class, Len(s)+1 if none
SkipUntil(s, p, class) ==
  IF p > Len(s) THEN Len(s) + 1
  ELSE CHOOSE q \in p..(Len(s) + 1) :
         /\ q = Len(s) + 1 \/ s[q] \in class
         /\ \A r \in p..(q - 1) : s[r] \notin class

SkipSpace(s, p) == SkipWhile(s, p, SpaceChars)
SkipWord(s, p) == SkipWhile(s, p, WordChars)

\* the number of characters of the class that s ends with
TrailingCount(s, class) ==
  CHOOSE d \in 0..Len(s) :
    /\ d = Len(s) \/ s[Len(s) - d] \notin class
    /\ \A r \in (Len(s) - d + 1)..Len(s) : s[r] \in class

trim(s) ==
  LET first == SkipSpace(s, 1)
  IN  IF first > Len(s) THEN <<>> ELSE SubSeq(s, first, Len(s) - TrailingCount(s, SpaceChars))

\* s.split('\n'): the pieces of s from position from on
RECURSIVE splitFrom(_, _)
splitFrom(s, from) ==
  Bind(SkipUntil(s, from, Newline), LAMBDA nl :
    IF nl > Len(s) THEN <<SubSeq(s, from, Len(s))>>
    ELSE <<SubSeq(s, from, nl - 1)>> \o splitFrom(s, nl + 1))

splitNewline(s) == splitFrom(s, 1)

\* Buffer.byteLength(content, 'utf8')
byteLength(s) ==
    Len(s)
  + Cardinality({q \in 1..Len(s) : s[q] \in TwoByteChars})
  + 2 * Cardinality({q \in 1..Len(s) : s[q] \in ThreeByteChars})

(***************************************************************************)
(* Regular expressions of the analyzer.  Each XxxAt(s, p) is the position  *)
(* just after the match of the expression that starts at p, 0 if none.     *)
(***************************************************************************)
LitEquals == <<"=">>
LitConst == <<"c","o","n","s","t">>
LitParen == <<"(">>
LitArrow == <<"=", ">">>
LitBrace == <<"{">>
LitFunction == <<"f","u","n","c","t","i","o","n">>
LitClass == <<"c","l","a","s","s">>
LitImport == <<"i","m","p","o","r","t">>
LitFrom == <<"f","r","o","m">>
LitRequire == <<"r","e","q","u","i","r","e","(">>
LitExport == <<"e","x","p","o","r","t">>
LitModuleExports == <<"m","o","d","u","l","e",".","e","x","p","o","r","t","s">>
LitLet == <<"l","e","t">>
LitDef == <<"d","e","f">>

\* kw \s+ \w+
KwSpaceWordAt(s, p, kw) ==
  IF ~LitAt(s, p, kw) THEN 0
  ELSE LET a == p + Len(kw)
           b == SkipSpace(s, a)
           c == SkipWord(s, b)
       IN  IF b > a /\ c > b THEN c ELSE 0

\* kw \s+ \w+ \s* =      (the position just after "=")
KwAssignAt(s, p, kw) ==
  LET c == KwSpaceWordAt(s, p, kw)
      d == IF c = 0 THEN 0 ELSE SkipSpace(s, c)
  IN  IF c # 0 /\ LitAt(s, d, LitEquals) THEN d + 1 ELSE 0

\* const \s+ \w+ \s* = \s* \(
ConstArrowAt(s, p) ==
  LET d == KwAssignAt(s, p, LitConst)
      e == IF d = 0 THEN 0 ELSE SkipSpace(s, d)
  IN  IF d # 0 /\ LitAt(s, e, LitParen) THEN e + 1 ELSE 0

\* => \s* \{
ArrowBlockAt(s, p) ==
  IF ~LitAt(s, p, LitArrow) THEN 0
  ELSE LET b == SkipSpace(s, p + 2)
       IN  IF LitAt(s, b, LitBrace) THEN b + 1 ELSE 0

\* /function\s+\w+|const\s+\w+\s*=\s*\(|=>\s*\{/
FunctionPatternAt(s, p) ==
  LET f == KwSpaceWordAt(s, p, LitFunction)
      c == ConstArrowAt(s, p)
  IN  IF f # 0 THEN f ELSE IF c # 0 THEN c ELSE ArrowBlockAt(s, p)

\* /class\s+\w+/
ClassPatternAt(s, p) == KwSpaceWordAt(s, p, LitClass)

\* import \s+ .* from : .* is greedy and stops at a line terminator
ImportFromAt(s, p) ==
  IF ~LitAt(s, p, LitImport) THEN 0
  ELSE LET a == p + 6
           b == SkipSpace(s, a)
           eol == SkipUntil(s, b, LineTerminators)
           froms == {q \in b..(eol - 4) : LitAt(s, q, LitFrom)}
       IN  IF b > a /\ froms # {} THEN SetMax(froms) + 4 ELSE 0

\* /import\s+.*from|require\(/
ImportPatternAt(s, p) ==
  LET i == ImportFromAt(s, p)
  IN  IF i # 0 THEN i
      ELSE IF LitAt(s, p, LitRequire) THEN p + 8 ELSE 0

\* /export\s+|module\.exports/
ExportPatternAt(s, p) ==
  LET a == p + 6
      b == SkipSpace(s, a)
  IN  IF LitAt(s, p, LitExport) /\ b > a THEN b
      ELSE IF LitAt(s, p, LitModuleExports)
             THEN p + 14 ELSE 0

\* /function\s+\w+|const\s+\w+\s*=|let\s+\w+\s*=/
JsHeuristicAt(s, p) ==
  \/ KwSpaceWordAt(s, p, LitFunction) # 0
  \/ KwAssignAt(s, p, LitConst) # 0
  \/ KwAssignAt(s, p, LitLet) # 0

\* /def\s+\w+\s*\(|import\s+\w+|class\s+\w+/
PyHeuristicAt(s, p) ==
  \/ LET c == KwSpaceWordAt(s, p, LitDef)
     IN  c # 0 /\ LitAt(s, SkipSpace(s, c), LitParen)
  \/ KwSpaceWordAt(s, p, LitImport) # 0
  \/ KwSpaceWordAt(s, p, LitClass) # 0

\* the positions a match of one of the expressions above can start at: each
\* of them starts with a literal, of which these are the first characters
PatternFirstChars == {"f", "c", "=", "i", "r", "e", "m", "l", "d"}
PatternStarts(s) == {p \in 1..Len(s) : s[p] \in PatternFirstChars}

\* String.prototype.match with a /g expression: the leftmost matches, none
\* overlapping; ends[p] is the end of the match starting at p, 0 if none
RECURSIVE CountFrom(_, _)
CountFrom(ends, from) ==
  Bind({p \in DOMAIN ends : p >= from /\ ends[p] # 0}, LAMBDA starts :
    IF starts = {} THEN 0
    ELSE Bind(ends[SetMin(starts)], LAMBDA next : 1 + CountFrom(ends, next)))


functionCountOf(content) ==
  Bind([p \in PatternStarts(content) |-> FunctionPatternAt(content, p)], LAMBDA ends : CountFrom(ends, 1))
classCountOf(content) ==
  Bind([p \in PatternStarts(content) |-> ClassPatternAt(content, p)], LAMBDA ends : CountFrom(ends, 1))
importCountOf(content) ==
  Bind([p \in PatternStarts(content) |-> ImportPatternAt(content, p)], LAMBDA ends : CountFrom(ends, 1))

\* RegExp.prototype.test of a fresh expression
hasFunctionPattern(content) == \E p \in PatternStarts(content) : FunctionPatternAt(content, p) # 0
hasClassPattern(content) == \E p \in PatternStarts(content) : ClassPatternAt(content, p) # 0
hasImportPattern(content) == \E p \in PatternStarts(content) : ImportPatternAt(content, p) # 0
hasExportPattern(content) == \E p \in PatternStarts(content) : ExportPatternAt(content, p) # 0
looksLikeJavaScript(content) == \E p \in PatternStarts(content) : JsHeuristicAt(content, p)
looksLikePython(content) == \E p \in PatternStarts(content) : PyHeuristicAt(content, p)

(***************************************************************************)
(* Property lookup on a plain object.  A key the object does not own is    *)
(* looked up on Object.prototype.  The keys the analyzer uses are          *)
(* lowercased suffixes, and the all-lowercase names of Object.prototype    *)
(* are "constructor" (the function Object) and "__proto__" (an accessor    *)
(* returning Object.prototype itself).                                     *)
(***************************************************************************)
KeyConstructor == <<"c","o","n","s","t","r","u","c","t","o","r">>
KeyProto == <<"_","_","p","r","o","t","o","_","_">>

\* the two inherited values, which are not strings and not numbers
ObjectConstructor == "[Function: Object]"
ObjectPrototype == "[Object: null prototype] {}"

\* String(v) of a value used as a property key or in a template literal
ToPropertyKey(v) ==
  IF v = ObjectConstructor THEN "function Object() { [native code] }"
  ELSE IF v = ObjectPrototype THEN "[object Object]"
  ELSE v

languageMap ==
  <<[key |-> <<"j","s">>, val |-> "JavaScript"],
    [key |-> <<"j","s","x">>, val |-> "JavaScript"],
    [key |-> <<"t","s">>, val |-> "TypeScript"],
    [key |-> <<"t","s","x">>, val |-> "TypeScript"],
    [key |-> <<"p","y">>, val |-> "Python"],
    [key |-> <<"j","a","v","a">>, val |-> "Java"],
    [key |-> <<"c","p","p">>, val |-> "C++"],
    [key |-> <<"c">>, val |-> "C"],
    [key |-> <<"c","s">>, val |-> "C#"],
    [key |-> <<"p","h","p">>, val |-> "PHP"],
    [key |-> <<"r","b">>, val |-> "Ruby"],
    [key |-> <<"g","o">>, val |-> "Go"],
    [key |-> <<"r","s">>, val |-> "Rust"],
    [key |-> <<"s","w","i","f","t">>, val |-> "Swift"],
    [key |-> <<"k","t">>, val |-> "Kotlin"],
    [key |-> <<"h","t","m","l">>, val |-> "HTML"],
    [key |-> <<"c","s","s">>, val |-> "CSS"],
    [key |-> <<"s","c","s","s">>, val |-> "SCSS"],
    [key |-> <<"j","s","o","n">>, val |-> "JSON"],
    [key |-> <<"x","m","l">>, val |-> "XML"],
    [key |-> <<"y","a","m","l">>, val |-> "YAML"],
    [key |-> <<"y","m","l">>, val |-> "YAML"],
    [key |-> <<"m","d">>, val |-> "Markdown"],
    [key |-> <<"s","h">>, val |-> "Shell"],
    [key |-> <<"s","q","l">>, val |-> "SQL"]>>

\* languageMap[extension]: the own entry, else the inherited one, else undefined
\* ("" stands for undefined: no entry of the table is an empty label)
languageMapGet(extension) ==
  IF \E k \in DOMAIN languageMap : languageMap[k].key = extension
    THEN languageMap[CHOOSE k \in DOMAIN languageMap : languageMap[k].key = extension].val
  ELSE IF extension = KeyConstructor THEN ObjectConstructor
  ELSE IF extension = KeyProto THEN ObjectPrototype
  ELSE ""

(***************************************************************************)
(* getFileExtension, detectLanguage, analyzeFile                           *)
(***************************************************************************)
\* filePath.match(/\.([^.]+)$/): the text after the last ".", lowercased;
\* <<>> stands for null (a match always captures at least one character)
getFileExtensionBase(filePath) ==
  LET dots == {q \in 1..Len(filePath) : filePath[q] = "."}
  IN  IF dots = {} \/ SetMax(dots) = Len(filePath) THEN <<>>
      ELSE toLowerCase(SubSeq(filePath, SetMax(dots) + 1, Len(filePath)))

\* getFileExtension without toLowerCase
getFileExtensionAsWritten(filePath) ==
  LET dots == {q \in 1..Len(filePath) : filePath[q] = "."}
  IN  IF dots = {} \/ SetMax(dots) = Len(filePath) THEN <<>>
      ELSE SubSeq(filePath, SetMax(dots) + 1, Len(filePath))

getFileExtension(filePath) == getFileExtensionBase(filePath)

detectLanguageBase(filePath, content) ==
  Bind(getFileExtension(filePath), LAMBDA extension :
    IF extension # <<>> /\ languageMapGet(extension) # ""
      THEN languageMapGet(extension)
    ELSE IF looksLikeJavaScript(content) THEN "JavaScript"
    ELSE IF looksLikePython(content) THEN "Python"
    ELSE "Unknown")

\* detectLanguage without the table of suffixes
detectLanguageByContent(filePath, content) ==
  IF looksLikeJavaScript(content) THEN "JavaScript"
  ELSE IF looksLikePython(content) THEN "Python"
  ELSE "Unknown"

detectLanguage(filePath, content) == detectLanguageBase(filePath, content)

LitLineComment == <<"/","/">>
LitBlockComment == <<"/","*">>
LitStar == <<"*">>

\* the three line filters of analyzeFile
\* a filter that leaves out the lines of a block comment's body as well
IsCodeLineNoStar(line) ==
  Bind(trim(line), LAMBDA trimmed :
    /\ Len(trimmed) > 0
    /\ ~startsWith(trimmed, LitLineComment)
    /\ ~startsWith(trimmed, LitBlockComment)
    /\ ~startsWith(trimmed, LitStar))

IsCodeLine(line) ==
  Bind(trim(line), LAMBDA trimmed :
    Len(trimmed) > 0 /\ ~startsWith(trimmed, LitLineComment) /\ ~startsWith(trimmed, LitBlockComment))

IsCommentLine(line) ==
  Bind(trim(line), LAMBDA trimmed :
    \/ startsWith(trimmed, LitLineComment)
    \/ startsWith(trimmed, LitBlockComment)
    \/ startsWith(trimmed, LitStar))

IsBlankLine(line) == Len(trim(line)) = 0


analyzeFileBase(filePath, content) ==
  Bind(splitNewline(content), LAMBDA lines :
      [ path         |-> filePath,
        lines        |-> Len(lines),
        size         |-> byteLength(content),
        codeLines    |-> Cardinality({k \in 1..Len(lines) : IsCodeLine(lines[k])}),
        commentLines |-> Cardinality({k \in 1..Len(lines) : IsCommentLine(lines[k])}),
        blankLines   |-> Cardinality({k \in 1..Len(lines) : IsBlankLine(lines[k])}),
        metrics      |->
          [ hasFunctions  |-> hasFunctionPattern(content),
            hasClasses    |-> hasClassPattern(content),
            hasImports    |-> hasImportPattern(content),
            hasExports    |-> hasExportPattern(content),
            functionCount |-> functionCountOf(content),
            classCount    |-> classCountOf(content),
            importCount   |-> importCountOf(content) ],
        language     |-> detectLanguage(filePath, content) ])

analyzeFile(filePath, content) == analyzeFileBase(filePath, content)

(***************************************************************************)
(* JavaScript values as express.json and JSON.parse produce them.          *)
(*   k       : "undefined", "null", "boolean", "number", "string",         *)
(*             "array", "object" (a plain object)                          *)
(*   s       : the characters of a string                                  *)
(*   b       : the value of a boolean; for a number, whether it is nonzero *)
(*   items   : the elements of an array                                    *)
(*   members : the own properties of an object, <<[key, val], ...>>        *)
(***************************************************************************)
VUndefined == [k |-> "undefined", s |-> <<>>, b |-> FALSE, items |-> <<>>, members |-> <<>>]
VNull == [k |-> "null", s |-> <<>>, b |-> FALSE, items |-> <<>>, members |-> <<>>]
VBool(b) == [k |-> "boolean", s |-> <<>>, b |-> b, items |-> <<>>, members |-> <<>>]
VNum(nonzero) == [k |-> "number", s |-> <<>>, b |-> nonzero, items |-> <<>>, members |-> <<>>]
VStr(s) == [k |-> "string", s |-> s, b |-> FALSE, items |-> <<>>, members |-> <<>>]
VArr(items) == [k |-> "array", s |-> <<>>, b |-> FALSE, items |-> items, members |-> <<>>]
VObj(members) == [k |-> "object", s |-> <<>>, b |-> FALSE, items |-> <<>>, members |-> members]

\* ToBoolean
Truthy(v) ==
  CASE v.k \in {"undefined", "null"} -> FALSE
    [] v.k \in {"boolean", "number"} -> v.b
    [] v.k = "string" -> v.s # <<>>
    [] OTHER -> TRUE

\* a || b
OrElse(a, b) == IF Truthy(a) THEN a ELSE b

\* typeof v
TypeOf(v) ==
  CASE v.k \in {"null", "array", "object"} -> "object"
    [] OTHER -> v.k

\* v.key for key one of path, name, content, code: these are names of no
\* prototype, so the access yields an own property of a plain object and
\* undefined on every other value (on null and undefined it throws: the
\* caller checks)
GetProp(v, key) ==
  IF v.k = "object" /\ \E m \in DOMAIN v.members : v.members[m].key = key
    THEN v.members[CHOOSE m \in DOMAIN v.members : v.members[m].key = key].val
  ELSE VUndefined

\* obj[key] = val on the member list of a plain object
SetMember(members, key, val) ==
  IF \E m \in DOMAIN members : members[m].key = key
    THEN [m \in DOMAIN members |->
            IF members[m].key = key THEN [key |-> key, val |-> val] ELSE members[m]]
  ELSE Append(members, [key |-> key, val |-> val])

(***************************************************************************)
(* JSON.parse                                                              *)
(***************************************************************************)
\* the characters of code points 0..127 (the grave accent is written u0060)
Ascii ==
  <<
    "u0000","u0001","u0002","u0003","u0004","u0005","u0006","u0007",
    "u0008","\t","\n","u000B","\f","\r","u000E","u000F",
    "u0010","u0011","u0012","u0013","u0014","u0015","u0016","u0017",
    "u0018","u0019","u001A","u001B","u001C","u001D","u001E","u001F",
    " ","!","\"","#","$","%","&","'",
    "(",")","*","+",",","-",".","/",
    "0","1","2","3","4","5","6","7",
    "8","9",":",";","<","=",">","?",
    "@","A","B","C","D","E","F","G",
    "H","I","J","K","L","M","N","O",
    "P","Q","R","S","T","U","V","W",
    "X","Y","Z","[","\\","]","^","_",
    "u0060","a","b","c","d","e","f","g",
    "h","i","j","k","l","m","n","o",
    "p","q","r","s","t","u","v","w",
    "x","y","z","{","|","}","~","u007F"
  >>

HexDigits == <<"0","1","2","3","4","5","6","7","8","9","A","B","C","D","E","F">>

IsHex(ch) == \E h \in DOMAIN HexDigits : HexDigits[h] = ch \/ HexDigits[h] = LowerCharInv(ch)

HexVal(ch) == (CHOOSE h \in DOMAIN HexDigits : HexDigits[h] = ch \/ HexDigits[h] = LowerCharInv(ch)) - 1

\* the character of \uXXXX
UnicodeEscape(h1, h2, h3, h4) ==
  LET code == ((HexVal(h1) * 16 + HexVal(h2)) * 16 + HexVal(h3)) * 16 + HexVal(h4)
  IN  IF code < 128 THEN Ascii[code + 1]
      ELSE "u" \o HexDigits[HexVal(h1) + 1] \o HexDigits[HexVal(h2) + 1]
               \o HexDigits[HexVal(h3) + 1] \o HexDigits[HexVal(h4) + 1]

JsonWsChars == {" ", "\t", "\n", "\r"}
DigitChars == Range(Digits)
IsDigit(ch) == ch \in DigitChars
\* a character a JSON string may not hold unescaped
IsControl(ch) == \E c \in 1..32 : Ascii[c] = ch

SkipJsonWs(s, p) == SkipWhile(s, p, JsonWsChars)
SkipDigits(s, p) == SkipWhile(s, p, DigitChars)
CharAt(s, p) == IF p >= 1 /\ p <= Len(s) THEN s[p] ELSE ""

ParseFail == [ok |-> FALSE, next |-> 0, v |-> VUndefined]
ParseOk(next, v) == [ok |-> TRUE, next |-> next, v |-> v]

\* the characters of a string literal from p (just after the opening quote)
RECURSIVE ParseStringAt(_, _, _)
ParseStringAt(s, p, acc) ==
  LET ch == CharAt(s, p)
      e == CharAt(s, p + 1)
  IN  IF ch = "" \/ IsControl(ch) THEN ParseFail
      ELSE IF ch = "\"" THEN ParseOk(p + 1, VStr(acc))
      ELSE IF ch # "\\" THEN ParseStringAt(s, p + 1, Append(acc, ch))
      ELSE IF e \in {"\"", "\\", "/"} THEN ParseStringAt(s, p + 2, Append(acc, e))
      ELSE IF e = "b" THEN ParseStringAt(s, p + 2, Append(acc, "u0008"))
      ELSE IF e = "f" THEN ParseStringAt(s, p + 2, Append(acc, "\f"))
      ELSE IF e = "n" THEN ParseStringAt(s, p + 2, Append(acc, "\n"))
      ELSE IF e = "r" THEN ParseStringAt(s, p + 2, Append(acc, "\r"))
      ELSE IF e = "t" THEN ParseStringAt(s, p + 2, Append(acc, "\t"))
      ELSE IF e = "u" /\ \A d \in 2..5 : IsHex(CharAt(s, p + d))
        THEN ParseStringAt(s, p + 6,
               Append(acc, UnicodeEscape(s[p + 2], s[p + 3], s[p + 4], s[p + 5])))
      ELSE ParseFail

ParseString(s, p, acc) == Bind(p, LAMBDA q : Bind(acc, LAMBDA a : ParseStringAt(s, q, a)))

\* -? (0 | [1-9][0-9]*) (\.[0-9]+)? ([eE][+-]?[0-9]+)?   from p
ParseNumber(s, p) ==
  LET a == IF CharAt(s, p) = "-" THEN p + 1 ELSE p
      b == IF CharAt(s, a) = "0" THEN a + 1 ELSE SkipDigits(s, a)
      c == IF CharAt(s, b) = "." THEN SkipDigits(s, b + 1) ELSE b
      x == IF CharAt(s, c) \in {"e", "E"}
             THEN IF CharAt(s, c + 1) \in {"+", "-"} THEN c + 2 ELSE c + 1
             ELSE c
      d == IF x > c THEN SkipDigits(s, x) ELSE c
  IN  IF b = a \/ (c > b /\ c = b + 1) \/ (x > c /\ d = x) THEN ParseFail
      ELSE ParseOk(d, VNum(\E q \in a..(c - 1) : s[q] \notin {"0", "."}))

RECURSIVE ParseValue(_, _)
RECURSIVE ParseElements(_, _, _)
RECURSIVE ParseMembers(_, _, _)

\* a value from p, which is no white space
ParseValue(s, p) ==
  LET ch == CharAt(s, p)
  IN  IF LitAt(s, p, <<"n","u","l","l">>) THEN ParseOk(p + 4, VNull)
      ELSE IF LitAt(s, p, <<"t","r","u","e">>) THEN ParseOk(p + 4, VBool(TRUE))
      ELSE IF LitAt(s, p, <<"f","a","l","s","e">>) THEN ParseOk(p + 5, VBool(FALSE))
      ELSE IF ch = "\"" THEN ParseString(s, p + 1, <<>>)
      ELSE IF ch = "-" \/ IsDigit(ch) THEN ParseNumber(s, p)
      ELSE IF ch = "[" THEN
        IF CharAt(s, SkipJsonWs(s, p + 1)) = "]"
          THEN ParseOk(SkipJsonWs(s, p + 1) + 1, VArr(<<>>))
          ELSE ParseElements(s, SkipJsonWs(s, p + 1), <<>>)
      ELSE IF ch = "{" THEN
        IF CharAt(s, SkipJsonWs(s, p + 1)) = "}"
          THEN ParseOk(SkipJsonWs(s, p + 1) + 1, VObj(<<>>))
          ELSE ParseMembers(s, SkipJsonWs(s, p + 1), <<>>)
      ELSE ParseFail

\* the elements of an array from p, up to and including "]"
ParseElements(s, p, acc) ==
  Bind(ParseValue(s, p), LAMBDA r :
    IF ~r.ok THEN ParseFail
    ELSE Bind(SkipJsonWs(s, r.next), LAMBDA q :
      IF CharAt(s, q) = ","
        THEN Bind(SkipJsonWs(s, q + 1), LAMBDA n : ParseElements(s, n, Append(acc, r.v)))
      ELSE IF CharAt(s, q) = "]" THEN ParseOk(q + 1, VArr(Append(acc, r.v)))
      ELSE ParseFail))

\* the members of an object from p, up to and including "}"
ParseMembers(s, p, acc) ==
  Bind(IF CharAt(s, p) = "\"" THEN ParseString(s, p + 1, <<>>) ELSE ParseFail, LAMBDA key :
    IF ~key.ok \/ CharAt(s, SkipJsonWs(s, key.next)) # ":" THEN ParseFail
    ELSE Bind(ParseValue(s, SkipJsonWs(s, SkipJsonWs(s, key.next) + 1)), LAMBDA r :
      IF ~r.ok THEN ParseFail
      ELSE Bind(SetMember(acc, key.v.s, r.v), LAMBDA members :
        Bind(SkipJsonWs(s, r.next), LAMBDA q :
          IF CharAt(s, q) = ","
            THEN Bind(SkipJsonWs(s, q + 1), LAMBDA n : ParseMembers(s, n, members))
          ELSE IF CharAt(s, q) = "}" THEN ParseOk(q + 1, VObj(members))
          ELSE ParseFail))))

\* JSON.parse(text): ok = FALSE stands for the SyntaxError it throws.  A number
\* is kept as whether it is nonzero.
JSONparse(text) ==
  Bind(ParseValue(text, SkipJsonWs(text, 1)), LAMBDA r :
    IF r.ok /\ SkipJsonWs(text, r.next) = Len(text) + 1 THEN r ELSE ParseFail)

(***************************************************************************)
(* The statistics objects.  fileTypes is a plain object keyed by suffix,   *)
(* held as its own properties in insertion order; a count is a number, or  *)
(* the string that "+ 1" makes of an inherited value.                      *)
(***************************************************************************)
CountNum(n) == [isNum |-> TRUE, n |-> n, s |-> <<>>]
CountStr(s) == [isNum |-> FALSE, n |-> 0, s |-> s]

\* String(Object): what the function Object becomes under "+ 1"
ObjectConstructorText ==
  <<"f","u","n","c","t","i","o","n"," ","O","b","j","e","c","t","(",")"," ","{"," ","[","n","a","t","i","v","e"," ","c","o","d","e","]"," ","}">>

HasOwn(obj, key) == \E m \in DOMAIN obj : obj[m].key = key
OwnVal(obj, key) == obj[CHOOSE m \in DOMAIN obj : obj[m].key = key].val

\* fileTypes[extension] = (fileTypes[extension] || 0) + 1
fileTypesIncrement(fileTypes, extension) ==
  IF HasOwn(fileTypes, extension) THEN
    LET cur == OwnVal(fileTypes, extension)
    IN  SetMember(fileTypes, extension,
          IF cur.isNum THEN CountNum((IF cur.n # 0 THEN cur.n ELSE 0) + 1)
          ELSE CountStr(Append(cur.s, "1")))
  ELSE IF extension = KeyConstructor
    \* the inherited function is truthy; the sum is a string, stored as an own property
    THEN SetMember(fileTypes, extension, CountStr(Append(ObjectConstructorText, "1")))
  ELSE IF extension = KeyProto
    \* the inherited accessor: its setter ignores a value that is no object
    THEN fileTypes
  ELSE SetMember(fileTypes, extension, CountNum(0 + 1))

\* languages[language] = (languages[language] || 0) + 1; no label is the name
\* of an inherited property, so a count is always a number
languagesIncrement(languages, language) ==
  LET key == ToPropertyKey(language)
  IN  IF HasOwn(languages, key)
        THEN SetMember(languages, key, OwnVal(languages, key) + 1)
        ELSE SetMember(languages, key, 0 + 1)

(***************************************************************************)
(* Object.entries: the array-index keys in ascending numeric order, then   *)
(* the other keys in insertion order                                       *)
(***************************************************************************)
DigitVal(ch) == (CHOOSE d \in DOMAIN Digits : Digits[d] = ch) - 1

\* a < b for two digit strings of the same length
RECURSIVE DigitsLess(_, _)
DigitsLess(a, b) ==
  IF a = <<>> THEN FALSE
  ELSE IF a[1] # b[1] THEN DigitVal(a[1]) < DigitVal(b[1])
  ELSE DigitsLess(Tail(a), Tail(b))

\* a < b for two canonical numeric strings
NumericLess(a, b) == Len(a) < Len(b) \/ (Len(a) = Len(b) /\ DigitsLess(a, b))

\* the canonical numeric string of an integer in 0 .. 2^32 - 2
IsArrayIndex(key) ==
  /\ key # <<>>
  /\ \A q \in DOMAIN key : IsDigit(key[q])
  /\ key[1] = "0" => Len(key) = 1
  /\ NumericLess(key, <<"4","2","9","4","9","6","7","2","9","5">>)


\* ascending insertion of the array-index entries
RECURSIVE SortIndexEntries(_)
SortIndexEntries(es) ==
  IF es = <<>> THEN <<>>
  ELSE Bind(CHOOSE m \in DOMAIN es : \A o \in DOMAIN es : ~NumericLess(es[o].key, es[m].key),
            LAMBDA lo :
              Bind(<<>> \o [m \in 1..(Len(es) - 1) |-> IF m < lo THEN es[m] ELSE es[m + 1]],
                   LAMBDA rest : <<es[lo]>> \o SortIndexEntries(rest)))


ObjectEntries(obj) ==
     SortIndexEntries(SelectSeq(obj, LAMBDA e : IsArrayIndex(e.key)))
  \o SelectSeq(obj, LAMBDA e : ~IsArrayIndex(e.key))

(***************************************************************************)
(* entries.sort((a, b) => b[1] - a[1])[0]                                  *)
(*                                                                         *)
(* A count that is a string makes the comparator return NaN, which sort    *)
(* takes as 0.  When the comparator is consistent the sort is stable: the  *)
(* first entry with the largest count comes first.  When it is not (a NaN  *)
(* entry beside two different numbers) the order is implementation-defined *)
(* and the engine, fixed for the process, decides which entry comes first. *)
(***************************************************************************)
ComparatorConsistent(entries) ==
  \/ \A m \in DOMAIN entries : entries[m].val.isNum
  \/ \A m, o \in DOMAIN entries :
       entries[m].val.isNum /\ entries[o].val.isNum => entries[m].val.n = entries[o].val.n

\* the index in entries of the element the sort puts first
SortedFirst(entries, pick) ==
  IF ~ComparatorConsistent(entries) THEN ((pick - 1) % Len(entries)) + 1
  ELSE IF \E m \in DOMAIN entries : ~entries[m].val.isNum THEN 1
  ELSE SetMin({m \in DOMAIN entries : \A o \in DOMAIN entries : entries[o].val.n <= entries[m].val.n})

(***************************************************************************)
(* Template literals                                                       *)
(***************************************************************************)
RECURSIVE ToDecimal(_)
ToDecimal(n) == IF n < 10 THEN <<Digits[n + 1]>> ELSE Append(ToDecimal(n \div 10), Digits[(n % 10) + 1])

CountText(c) == IF c.isNum THEN ToDecimal(c.n) ELSE c.s

\* an insight: the text of the template with ${} for each substitution, and
\* the substituted texts in order
Insight(type, text, args) == [type |-> type, message |-> [text |-> text, args |-> args]]

(***************************************************************************)
(* generateInsights                                                        *)
(***************************************************************************)
LargeCodebaseFiles == 100
ManyLanguages == 3
LargeAverageSize == 10000
ManyFunctions == 10

NoFilesInsight == Insight("warning", "No files found in codebase", <<>>)

LargeCodebaseInsight(totalFiles) ==
  Insight("info", "Large codebase detected with ${} files", <<ToDecimal(totalFiles)>>)

MultiLanguageInsight(languageCount) ==
  Insight("info", "Multi-language project detected with ${} different languages",
          <<ToDecimal(languageCount)>>)

MostCommonInsight(entry) ==
  Insight("info", "Most common file type: .${} (${} files)", <<entry.key, CountText(entry.val)>>)

LargeFilesInsight ==
  Insight("warning",
          "Some files are quite large. Consider splitting them for better maintainability.",
          <<>>)

ManyFunctionsInsight(n) ==
  Insight("warning", "${} file(s) have more than 10 functions. Consider refactoring.",
          <<ToDecimal(n)>>)

When(cond, insight) == IF cond THEN <<insight>> ELSE <<>>

\* the filter with >= for >
complexFilesAtLeast(analysis) ==
  SelectSeq(analysis.files, LAMBDA f : f.metrics.functionCount >= ManyFunctions)

\* analysis.files.filter(f => f.metrics.functionCount > 10)
complexFiles(analysis) == SelectSeq(analysis.files, LAMBDA f : f.metrics.functionCount > ManyFunctions)

\* avgFileSize > 10000 with avgFileSize = totalSize / totalFiles, for totalFiles > 0
\* (the quotient of two integers of this size compares with 10000 as the exact one does)
\* the average compared with >= where the code has >
avgFileSizeAtLeast(analysis) ==
  analysis.statistics.totalSize >= LargeAverageSize * analysis.summary.totalFiles

avgFileSizeLarge(analysis) ==
  analysis.statistics.totalSize > LargeAverageSize * analysis.summary.totalFiles

mostCommonType(analysis, pick) ==
  Bind(ObjectEntries(analysis.statistics.fileTypes), LAMBDA entries :
    IF entries = <<>> THEN <<>> ELSE <<entries[SortedFirst(entries, pick)]>>)

\* the rules after the first, in the order of the code: what each pushes
insightRules(analysis, pick) ==
  << When(analysis.summary.totalFiles > LargeCodebaseFiles,
          LargeCodebaseInsight(analysis.summary.totalFiles)),
     When(Len(analysis.statistics.languages) > ManyLanguages,
          MultiLanguageInsight(Len(analysis.statistics.languages))),
     Bind(mostCommonType(analysis, pick), LAMBDA mostCommon :
       IF mostCommon # <<>> THEN <<MostCommonInsight(mostCommon[1])>> ELSE <<>>),
     When(avgFileSizeLarge(analysis), LargeFilesInsight),
     Bind(Len(complexFiles(analysis)), LAMBDA n : When(n > 0, ManyFunctionsInsight(n))) >>

Flatten(rules) == rules[1] \o rules[2] \o rules[3] \o rules[4] \o rules[5]

generateInsightsBase(analysis, pick) ==
  IF analysis.summary.totalFiles = 0 THEN <<NoFilesInsight>>
  ELSE Flatten(insightRules(analysis, pick))

\* generateInsights without the rule for no files
generateInsightsNoEmptyRule(analysis, pick) == Flatten(insightRules(analysis, pick))

\* generateInsights with the rules chained by else
generateInsightsElseIf(analysis, pick) ==
  IF analysis.summary.totalFiles = 0 THEN <<NoFilesInsight>>
  ELSE Bind(insightRules(analysis, pick), LAMBDA rules :
         IF \A m \in DOMAIN rules : rules[m] = <<>> THEN <<>>
         ELSE rules[SetMin({m \in DOMAIN rules : rules[m] # <<>>})])

generateInsights(analysis, pick) == generateInsightsBase(analysis, pick)

(***************************************************************************)
(* The submissions                                                         *)
(***************************************************************************)
MaxFiles == 2
MaxRuns == 2
MaxPick == 2
MaxPermuted == 3

KeyPath == <<"p","a","t","h">>
KeyName == <<"n","a","m","e">>
KeyContent == <<"c","o","n","t","e","n","t">>
KeyCode == <<"c","o","d","e">>

FileRecord(path, content) ==
  VObj(<<[key |-> KeyPath, val |-> VStr(path)], [key |-> KeyContent, val |-> VStr(content)]>>)

\* the elements the enumerated arrays are made of
Elements ==
  {
    \* a.js / x
    VObj(<<[key |-> <<"p","a","t","h">>, val |-> VStr(<<"a",".","j","s">>)], [key |-> <<"c","o","n","t","e","n","t">>, val |-> VStr(<<"x">>)]>>),
    \* an array-index suffix; a comment, a star, a blank and a code line
    VObj(<<[key |-> <<"p","a","t","h">>, val |-> VStr(<<"b",".","1">>)], [key |-> <<"c","o","n","t","e","n","t">>, val |-> VStr(<<"/","/"," ","c","\n"," ","*"," ","d","\n","\n","x">>)]>>),
    \* name and code instead of path and content; an uppercase suffix
    VObj(<<[key |-> <<"n","a","m","e">>, val |-> VStr(<<"C",".","P","Y">>)], [key |-> <<"c","o","d","e">>, val |-> VStr(<<"d","e","f"," ","f","(","x",")">>)]>>),
    \* no suffix; an empty content beside a code field
    VObj(<<[key |-> <<"p","a","t","h">>, val |-> VStr(<<"R","E","A","D","M","E">>)], [key |-> <<"c","o","n","t","e","n","t">>, val |-> VStr(<<>>)], [key |-> <<"c","o","d","e">>, val |-> VStr(<<"l","e","t"," ","x"," ","="," ","1">>)]>>),
    \* a suffix that names an inherited property
    VObj(<<[key |-> <<"p","a","t","h">>, val |-> VStr(<<"m",".","c","o","n","s","t","r","u","c","t","o","r">>)], [key |-> <<"c","o","n","t","e","n","t">>, val |-> VStr(<<"f","u","n","c","t","i","o","n"," ","f">>)]>>),
    \* a suffix that names the inherited accessor
    VObj(<<[key |-> <<"p","a","t","h">>, val |-> VStr(<<"p",".","_","_","p","r","o","t","o","_","_">>)], [key |-> <<"c","o","n","t","e","n","t">>, val |-> VStr(<<"=",">","{">>)]>>),
    \* a content of two bytes a character
    VObj(<<[key |-> <<"p","a","t","h">>, val |-> VStr(<<"d",".","p","y">>)], [key |-> <<"c","o","n","t","e","n","t">>, val |-> VStr(<<"u00E9","u00E9">>)]>>),
    \* null
    VNull,
    \* a content that is a number
    VObj(<<[key |-> <<"p","a","t","h">>, val |-> VStr(<<"a",".","j","s">>)], [key |-> <<"c","o","n","t","e","n","t">>, val |-> VNum(TRUE)]>>),
    \* a path that is an array
    VObj(<<[key |-> <<"p","a","t","h">>, val |-> VArr(<<>>)], [key |-> <<"c","o","n","t","e","n","t">>, val |-> VStr(<<"x">>)]>>),
    \* a string
    VStr(<<"s","t","r">>)
  }

SeqsUpTo(S, n) == UNION {[1..m -> S] : m \in 0..n}

\* s, n times over
Repeat(s, n) == <<>> \o [q \in 1..(n * Len(s)) |-> s[((q - 1) % Len(s)) + 1]]

\* more files than the large-codebase rule asks for, of five suffixes
ScenarioSuffixes == <<<<"j","s">>, <<"p","y">>, <<"r","b">>, <<"g","o">>, <<"r","s">>>>

\* five suffixes of three languages
FewLanguageSuffixes == <<<<"j","s">>, <<"j","s","x">>, <<"t","s">>, <<"t","s","x">>, <<"y","m","l">>>>

TrivialContent == <<"x">>

TrivialFile(i, suffixes) ==
  FileRecord(<<"f">> \o ToDecimal(i) \o <<".">> \o suffixes[(i % Len(suffixes)) + 1], TrivialContent)

ManyFiles == <<>> \o [i \in 1..(LargeCodebaseFiles + 1) |-> TrivialFile(i, ScenarioSuffixes)]
ManyFilesFewLanguages == <<>> \o [i \in 1..(LargeCodebaseFiles + 1) |-> TrivialFile(i, FewLanguageSuffixes)]

ArrowBlock == <<"=",">","{">>

\* a character of three bytes
WideChar == <<"u20AC">>
FunctionDecl == <<"f","u","n","c","t","i","o","n"," ","f","(",")","{","}","\n">>

ScenarioArrays ==
  {
    \* the large codebase, and the one of exactly the threshold
    ManyFiles,
    ManyFilesFewLanguages,
    SubSeq(ManyFiles, 1, LargeCodebaseFiles),
    \* the large codebase with a file of many functions in it
    Append(SubSeq(ManyFiles, 1, LargeCodebaseFiles),
           FileRecord(<<"b","i","g",".","t","s">>, Repeat(ArrowBlock, ManyFunctions + 1))),
    \* one file just over and one file just at the function threshold
    <<FileRecord(<<"f",".","j","s">>, Repeat(FunctionDecl, ManyFunctions + 1))>>,
    <<FileRecord(<<"f",".","j","s">>, Repeat(FunctionDecl, ManyFunctions))>>,
    <<FileRecord(<<"g",".","j","s">>, Repeat(ArrowBlock, ManyFunctions)),
      FileRecord(<<"h",".","j","s">>, Repeat(ArrowBlock, ManyFunctions + 1)),
      FileRecord(<<"i">>, Repeat(FunctionDecl, ManyFunctions + 2))>>,
    \* an average size just over and just at the threshold
    <<FileRecord(<<"l",".","c">>, Repeat(WideChar, (LargeAverageSize \div 3) + 1))>>,
    <<FileRecord(<<"l",".","c">>, Repeat(WideChar, LargeAverageSize \div 3) \o <<"x">>)>>,
    \* a large file of many functions
    <<FileRecord(<<"k",".","c">>,
                 Repeat(WideChar, LargeAverageSize \div 3) \o Repeat(ArrowBlock, ManyFunctions + 1))>>,
    \* four languages and a file of many functions
    <<FileRecord(<<"w",".","j","s">>, Repeat(ArrowBlock, ManyFunctions + 1)),
      FileRecord(<<"x",".","p","y">>, <<>>),
      FileRecord(<<"y",".","r","b">>, <<>>),
      FileRecord(<<"z",".","g","o">>, <<>>)>>,
    \* one small file
    <<FileRecord(<<"a","p","p",".","j","s">>, <<"c","o","n","s","o","l","e",".","l","o","g","(","\"","h","i","\"",")",";">>)>>,
    \* three files of three suffixes, three labels, three sizes and two numbers of lines
    <<FileRecord(<<"a",".","j","s">>, <<"x">>),
      FileRecord(<<"b",".","1">>, <<"/","/"," ","c","\n"," ","*"," ","d","\n","\n","x">>),
      FileRecord(<<"d",".","p","y">>, <<"u00E9","u00E9">>)>>,
    \* an uppercase suffix of the table over a content of another language, and
    \* a content of both patterns under a path of no suffix
    <<FileRecord(<<"M",".","P","Y">>, <<"f","u","n","c","t","i","o","n"," ","f">>),
      FileRecord(<<"b","o","t","h">>, <<"i","m","p","o","r","t"," ","o","s","\n","l","e","t"," ","x"," ","="," ","1">>)>>,
    \* a largest count that is not the first key, and ties
    <<FileRecord(<<"a",".","j","s">>, <<>>), FileRecord(<<"b",".","p","y">>, <<>>),
      FileRecord(<<"c",".","p","y">>, <<>>)>>,
    <<FileRecord(<<"a",".","j","s">>, <<>>), FileRecord(<<"b",".","p","y">>, <<>>),
      FileRecord(<<"c",".","P","Y">>, <<>>), FileRecord(<<"d",".","J","S">>, <<>>)>>,
    <<FileRecord(<<"a",".","1","0">>, <<>>), FileRecord(<<"b",".","9">>, <<>>),
      FileRecord(<<"c",".","j","s">>, <<>>)>>,
    <<FileRecord(<<"m",".","c","o","n","s","t","r","u","c","t","o","r">>, <<>>), FileRecord(<<"a",".","j","s">>, <<>>),
      FileRecord(<<"b",".","p","y">>, <<>>), FileRecord(<<"c",".","p","y">>, <<>>)>>
  }

\* the texts of the submissions that are strings
Texts ==
  {
    <<>>,
    <<"[","]">>,
    <<" ","["," ","]"," ">>,
    <<"x">>,
    <<"f","u","n","c","t","i","o","n"," ","f">>,
    <<"n","u","l","l">>,
    <<"1","2">>,
    <<"{","}">>,
    <<"\"","a",".","j","s","\"">>,
    <<"[","{","\"","p","a","t","h","\"",":","\"","a",".","j","s","\"",",","\"","c","o","n","t","e","n","t","\"",":","\"","x","\"","}","]">>,
    <<"{","\"","n","a","m","e","\"",":","\"","t",".","p","y","\"",",","\"","c","o","d","e","\"",":","\"","a","\\","n","b","\"","}">>,
    <<"[","{","\"","p","a","t","h","\"",":","\"","a",".","j","s","\"","}",",","n","u","l","l","]">>,
    <<"[","1",",">>,
    <<"i","m","p","o","r","t"," ","o","s">>
  }

\* what the caller may hand to analyzeCodebase
Submissions ==
     {VArr(items) : items \in SeqsUpTo(Elements, MaxFiles) \cup ScenarioArrays}
  \cup {VStr(text) : text \in Texts}
  \cup Elements
  \cup {VUndefined, VBool(TRUE), VNum(FALSE), VNum(TRUE)}

(***************************************************************************)
(* analyzeCodebase as a state machine: one call after another, each on the *)
(* submission of the process' caller                                       *)
(***************************************************************************)
VARIABLES
  codebase,   \* the argument of the call
  pc,         \* "called", "loop", "returned", "thrown"
  files,      \* the local files
  idx,        \* the number of elements of files the loop has taken
  analysis,   \* the local analysis; the report once pc = "returned"
  error,      \* the Error thrown once pc = "thrown"
  now,        \* the clock new Date() reads
  run,        \* the number of this call
  prev,       \* the outcome of the call before this one
  engine      \* what the engine's sort does where the language leaves it open

VARIABLES
  server,     \* the program that serves: "functions", "local", or "none" for a direct call
  req,        \* the request
  reqUser,    \* req.user: empty until verifyToken sets it
  res,        \* the responses sent, in order
  stage,      \* "direct", "loading", "received", "handler", "signIn", "analyzing", "done"
  steps,      \* the middleware and handlers that have run, in order
  env,        \* process.env.NODE_ENV and whether firebaseWebApiKey is set
  other,      \* the locals of a second call of analyzeCodebase, while it does not run
  admin,      \* firebase-admin in this process: admin.apps, the modules loaded, the key file
  fetched     \* what the fetch of signInWithPassword gave for this request

http == <<server, req, reqUser, res, stage, steps, env, admin, fetched>>

\* no second call
NoCall ==
  [codebase |-> [k |-> "undefined", s |-> <<>>, b |-> FALSE, items |-> <<>>, members |-> <<>>],
   pc |-> "none", files |-> <<>>, idx |-> 0,
   analysis |-> [summary |-> [totalFiles |-> 0, analyzedAt |-> 0], files |-> <<>>,
                 statistics |-> [totalLines |-> 0, totalSize |-> 0, fileTypes |-> <<>>, languages |-> <<>>],
                 insights |-> <<>>],
   error |-> [message |-> [prefix |-> "", cause |-> ""]]]

vars == <<codebase, pc, files, idx, analysis, error, now, run, prev, engine,
          server, req, reqUser, res, stage, steps, env, other, admin, fetched>>

NoHeaders ==
  [authorization |-> VUndefined, origin |-> VUndefined, referer |-> VUndefined,
   forwardedFor |-> VUndefined]

NoRequest ==
  [route |-> "none", headers |-> NoHeaders, ip |-> VUndefined, remoteAddress |-> VUndefined,
   body |-> VObj(<<>>)]

Development == [NODE_ENV |-> "development", webApiKey |-> TRUE]

\* firebase-admin before any module of the process has run
NoAdmin == [apps |-> <<>>, loaded |-> <<>>, keyFile |-> FALSE]

\* no fetch of signInWithPassword yet
NoAnswer == [kind |-> "none", errorMessage |-> "", idToken |-> <<>>]

NoAnalysis ==
  [ summary    |-> [totalFiles |-> 0, analyzedAt |-> 0],
    files      |-> <<>>,
    statistics |-> [totalLines |-> 0, totalSize |-> 0, fileTypes |-> <<>>, languages |-> <<>>],
    insights   |-> <<>> ]

NoError == [message |-> [prefix |-> "", cause |-> ""]]

\* the fault thrown on as it is
AnalysisFailedBare(cause) == [message |-> [prefix |-> "", cause |-> cause]]

\* new Error(`Codebase analysis failed: ${error.message}`)
AnalysisFailed(cause) == [message |-> [prefix |-> "Codebase analysis failed: ", cause |-> cause]]

NoOutcome ==
  [pc |-> "none", codebase |-> VUndefined, analysis |-> NoAnalysis, error |-> NoError,
   user |-> <<>>, res |-> <<>>]

Init ==
  /\ codebase \in Submissions
  /\ pc = "called"
  /\ files = <<>>
  /\ idx = 0
  /\ analysis = NoAnalysis
  /\ error = NoError
  /\ now = 0
  /\ run = 1
  /\ prev = NoOutcome
  /\ engine \in 1..MaxPick
  /\ server = "none"
  /\ req = NoRequest
  /\ reqUser = <<>>
  /\ res = <<>>
  /\ stage = "direct"
  /\ steps = <<>>
  /\ env = Development
  /\ other = NoCall
  /\ admin = NoAdmin
  /\ fetched = NoAnswer

\* normalizeFiles without the test Array.isArray
normalizeFilesNoArrayTest(cb) ==
  IF TypeOf(cb) = "string" THEN
    Bind(JSONparse(cb.s), LAMBDA parsed :
      IF parsed.ok THEN <<parsed.v>> ELSE <<FileRecord(<<"f","i","l","e">>, cb.s)>>)
  ELSE IF TypeOf(cb) = "object" THEN <<cb>>
  ELSE <<>>

\* normalizeFiles with no file for a text that does not parse
normalizeFilesDropUnparsed(cb) ==
  IF TypeOf(cb) = "string" THEN
    Bind(JSONparse(cb.s), LAMBDA parsed :
      IF parsed.ok
        THEN IF parsed.v.k = "array" THEN parsed.v.items ELSE <<parsed.v>>
        ELSE <<>>)
  ELSE IF cb.k = "array" THEN cb.items
  ELSE IF TypeOf(cb) = "object" THEN <<cb>>
  ELSE <<>>

\* lines 9-24: the files of a submission
normalizeFiles(cb) ==
  IF TypeOf(cb) = "string" THEN
    Bind(JSONparse(cb.s), LAMBDA parsed :
      IF parsed.ok
        THEN IF parsed.v.k = "array" THEN parsed.v.items ELSE <<parsed.v>>
        ELSE <<FileRecord(<<"f","i","l","e">>, cb.s)>>)
  ELSE IF cb.k = "array" THEN cb.items
  ELSE IF TypeOf(cb) = "object" THEN <<cb>>
  ELSE <<>>

\* the accumulators kept from one call to the next
newAnalysisKept(fs, clock) ==
  [ summary    |-> [totalFiles |-> Len(fs), analyzedAt |-> clock],
    files      |-> prev.analysis.files,
    statistics |-> prev.analysis.statistics,
    insights   |-> <<>> ]

\* lines 26-39
newAnalysis(fs, clock) ==
  [ summary    |-> [totalFiles |-> Len(fs), analyzedAt |-> clock],
    files      |-> <<>>,
    statistics |-> [totalLines |-> 0, totalSize |-> 0, fileTypes |-> <<>>, languages |-> <<>>],
    insights   |-> <<>> ]

Normalize ==
  /\ pc = "called"
  /\ \E fs \in {normalizeFiles(codebase)} :
       /\ files' = fs
       /\ analysis' = newAnalysis(fs, now)
  /\ idx' = 0
  /\ pc' = "loop"
  /\ UNCHANGED <<codebase, error, now, run, prev, engine>>
  /\ UNCHANGED http
  /\ UNCHANGED other

\* file.path || file.name || 'unknown'
filePathOf(file) ==
  OrElse(GetProp(file, KeyPath), OrElse(GetProp(file, KeyName), VStr(<<"u","n","k","n","o","w","n">>)))

\* file.content || file.code || ''
fileContentOf(file) ==
  OrElse(GetProp(file, KeyContent), OrElse(GetProp(file, KeyCode), VStr(<<>>)))

\* the TypeError one pass of the loop body raises, "" if it raises none
loopFault(file) ==
  IF file.k \in {"null", "undefined"} THEN "Cannot read properties of null (reading 'path')"
  ELSE IF fileContentOf(file).k # "string" THEN "content.split is not a function"
  ELSE IF filePathOf(file).k # "string" THEN "filePath.match is not a function"
  ELSE ""

\* lines 49-63: the statistics after one more file
updateStatisticsBase(statistics, fileAnalysis, filePath, fileContent) ==
  Bind(getFileExtension(filePath), LAMBDA extension :
  Bind(detectLanguage(filePath, fileContent), LAMBDA language :
      [ totalLines |-> statistics.totalLines + fileAnalysis.lines,
        totalSize  |-> statistics.totalSize + fileAnalysis.size,
        fileTypes  |-> IF extension # <<>>
                         THEN fileTypesIncrement(statistics.fileTypes, extension)
                         ELSE statistics.fileTypes,
        languages  |-> IF language # ""
                         THEN languagesIncrement(statistics.languages, language)
                         ELSE statistics.languages ]))

\* totalSize from content.length in place of the size in bytes
updateStatisticsByLength(statistics, fileAnalysis, filePath, fileContent) ==
  [updateStatisticsBase(statistics, fileAnalysis, filePath, fileContent)
     EXCEPT !.totalSize = statistics.totalSize + Len(fileContent)]

\* totalLines assigned where it is added to
updateStatisticsAssign(statistics, fileAnalysis, filePath, fileContent) ==
  [updateStatisticsBase(statistics, fileAnalysis, filePath, fileContent)
     EXCEPT !.totalLines = fileAnalysis.lines]

updateStatistics(statistics, fileAnalysis, filePath, fileContent) ==
  updateStatisticsBase(statistics, fileAnalysis, filePath, fileContent)

\* lines 42-64: one pass of the loop that raises nothing
AnalyzeNextFile ==
  /\ pc = "loop"
  /\ idx < Len(files)
  /\ loopFault(files[idx + 1]) = ""
  /\ \E filePath \in {filePathOf(files[idx + 1]).s} :
     \E fileContent \in {fileContentOf(files[idx + 1]).s} :
     \E fileAnalysis \in {analyzeFile(filePath, fileContent)} :
       analysis' =
         [analysis EXCEPT
            !.files = Append(@, fileAnalysis),
            !.statistics = updateStatistics(@, fileAnalysis, filePath, fileContent)]
  /\ idx' = idx + 1
  /\ UNCHANGED <<codebase, pc, files, error, now, run, prev, engine>>
  /\ UNCHANGED http
  /\ UNCHANGED other

\* lines 42-46 and 70-72: a pass of the loop that raises, and the catch
AnalyzeNextFileThrows ==
  /\ pc = "loop"
  /\ idx < Len(files)
  /\ loopFault(files[idx + 1]) # ""
  /\ error' = AnalysisFailed(loopFault(files[idx + 1]))
  /\ analysis' = NoAnalysis
  /\ pc' = "thrown"
  /\ UNCHANGED <<codebase, files, idx, now, run, prev, engine>>
  /\ UNCHANGED http
  /\ UNCHANGED other

\* lines 66-69
Finish ==
  /\ pc = "loop"
  /\ idx = Len(files)
  /\ analysis' = [analysis EXCEPT !.insights = generateInsights(analysis, engine)]
  /\ pc' = "returned"
  /\ UNCHANGED <<codebase, files, idx, error, now, run, prev, engine>>
  /\ UNCHANGED http
  /\ UNCHANGED other

\* the caller calls again with the same submission, a tick later
CallAgain ==
  /\ stage = "direct"
  /\ pc \in {"returned", "thrown"}
  /\ run < MaxRuns
  /\ prev' = [pc |-> pc, codebase |-> codebase, analysis |-> analysis, error |-> error,
               user |-> <<>>, res |-> <<>>]
  /\ now' = now + 1
  /\ run' = run + 1
  /\ pc' = "called"
  /\ files' = <<>>
  /\ idx' = 0
  /\ analysis' = NoAnalysis
  /\ error' = NoError
  /\ UNCHANGED <<codebase, engine>>
  /\ UNCHANGED http
  /\ UNCHANGED other

Reverse(items) == <<>> \o [i \in 1..Len(items) |-> items[Len(items) + 1 - i]]

\* the orders the caller may give the elements of an array: all of them for a
\* short array, the reverse for a long one
Reorderings(items) ==
  IF Len(items) <= MaxPermuted
    THEN {<<>> \o [i \in 1..Len(items) |-> items[p[i]]] :
            p \in {q \in [1..Len(items) -> 1..Len(items)] :
                     \A i, j \in 1..Len(items) : i # j => q[i] # q[j]}}
    ELSE {Reverse(items)}

\* the caller calls again with the elements of the array in another order
CallReordered ==
  /\ stage = "direct"
  /\ pc \in {"returned", "thrown"}
  /\ run < MaxRuns
  /\ codebase.k = "array"
  /\ \E items \in Reorderings(codebase.items) \ {codebase.items} : codebase' = VArr(items)
  /\ prev' = [pc |-> pc, codebase |-> codebase, analysis |-> analysis, error |-> error,
               user |-> <<>>, res |-> <<>>]
  /\ now' = now + 1
  /\ run' = run + 1
  /\ pc' = "called"
  /\ files' = <<>>
  /\ idx' = 0
  /\ analysis' = NoAnalysis
  /\ error' = NoError
  /\ UNCHANGED engine
  /\ UNCHANGED http
  /\ UNCHANGED other

Next ==
  \/ Normalize
  \/ AnalyzeNextFile
  \/ AnalyzeNextFileThrows
  \/ Finish
  \/ CallAgain
  \/ CallReordered

Spec == Init /\ [][Next]_vars

(***************************************************************************)
(* The two servers: functions/index.js and server.js                       *)
(***************************************************************************)
core == <<codebase, pc, files, idx, analysis, error, now, run, prev, engine>>

KeyCodebase == <<"c","o","d","e","b","a","s","e">>
KeyEmail == <<"e","m","a","i","l">>
KeyPassword == <<"p","a","s","s","w","o","r","d">>

\* s.includes(lit)
includes(s, lit) == \E p \in 1..Len(s) : LitAt(s, p, lit)

Bearer == <<"B","e","a","r","e","r"," ">>

\* authHeader.split('Bearer ')[1] of a header that starts with 'Bearer ': the
\* text from the end of that first separator to the next separator, or to the end
bearerToken(authHeader) ==
  LET from == Len(Bearer) + 1
      nexts == {p \in from..Len(authHeader) : LitAt(authHeader, p, Bearer)}
  IN  SubSeq(authHeader, from, IF nexts = {} THEN Len(authHeader) ELSE SetMin(nexts) - 1)

(***************************************************************************)
(* Firebase: the tokens it knows and what it answers                       *)
(***************************************************************************)
TokenAlice == <<"a","l","i","c","e">>
TokenBob == <<"b","o","b">>
TokenOld == <<"o","l","d">>
TokenDown == <<"d","o","w","n">>

NoDecodedToken == [uid |-> "", email |-> "", email_verified |-> FALSE, name |-> "", picture |-> ""]

DecodedAlice ==
  [uid |-> "uid-alice", email |-> "alice@example.com", email_verified |-> TRUE,
   name |-> "Alice", picture |-> ""]

DecodedBob ==
  [uid |-> "uid-bob", email |-> "bob@example.com", email_verified |-> FALSE,
   name |-> "", picture |-> "bob.png"]

Verified(decoded) == [ok |-> TRUE, decoded |-> decoded, code |-> "", message |-> ""]
VerifyFailed(code, message) == [ok |-> FALSE, decoded |-> NoDecodedToken, code |-> code, message |-> message]

\* admin.auth().verifyIdToken(idToken)
verifyIdToken(idToken) ==
  IF idToken = TokenAlice THEN Verified(DecodedAlice)
  ELSE IF idToken = TokenBob THEN Verified(DecodedBob)
  ELSE IF idToken = TokenOld
    THEN VerifyFailed("auth/id-token-expired", "Firebase ID token has expired.")
  ELSE IF idToken = TokenDown
    THEN VerifyFailed("auth/internal-error", "Error fetching public keys for Google certs")
  ELSE VerifyFailed("auth/argument-error", "Decoding Firebase ID token failed.")

\* admin.auth().getUser(uid): the record, or the error of a user that is gone
getUserAnswers ==
  {[ok |-> TRUE, displayName |-> "Display Name", photoURL |-> "photo.png",
    creationTime |-> "created", lastSignInTime |-> "signed-in", message |-> ""],
   [ok |-> FALSE, displayName |-> "", photoURL |-> "",
    creationTime |-> "", lastSignInTime |-> "",
    message |-> "There is no user record corresponding to the provided identifier."]}

\* a || b on two texts, "" standing for undefined
TextOr(a, b) == IF a # "" THEN a ELSE b

(***************************************************************************)
(* Responses                                                               *)
(***************************************************************************)
Msg(text) == [prefix |-> text, cause |-> ""]

\* a JSON body: each field is empty when the body has no such field
JsonBody ==
  [success |-> <<>>, authenticated |-> <<>>, error |-> <<>>, message |-> <<>>,
   data |-> <<>>, analyzedBy |-> <<>>, user |-> <<>>, tokens |-> <<>>]

Response(status, body) == [status |-> status, body |-> body]

\* { success: false, error, message }
ErrorBody(errorType, message) ==
  [JsonBody EXCEPT !.success = <<FALSE>>, !.error = <<errorType>>, !.message = <<message>>]

\* { success: false, authenticated: false, error, message }
AuthErrorBody(errorType, message) ==
  [JsonBody EXCEPT !.success = <<FALSE>>, !.authenticated = <<FALSE>>,
                   !.error = <<errorType>>, !.message = <<message>>]

NoTokenMessage ==
  Msg("No token provided. Please include a Firebase ID token in the Authorization header as \"Bearer <token>\"")

\* a response sent, and the next handler called all the same
RejectedThenNext(response) == [next |-> TRUE, user |-> <<>>, response |-> <<response>>]

Rejected(response) == [next |-> FALSE, user |-> <<>>, response |-> <<response>>]
Continue(user) == [next |-> TRUE, user |-> user, response |-> <<>>]

(***************************************************************************)
(* middleware/auth.js: verifyToken                                         *)
(***************************************************************************)
verifyToken(request) ==
  LET authHeader == request.headers.authorization
  IN  IF ~Truthy(authHeader) \/ ~startsWith(authHeader.s, Bearer)
        THEN Rejected(Response(401, ErrorBody("Unauthorized", NoTokenMessage)))
      ELSE IF bearerToken(authHeader.s) = <<>>
        THEN Rejected(Response(401, ErrorBody("Unauthorized", Msg("Invalid token format"))))
      ELSE
        LET answer == verifyIdToken(bearerToken(authHeader.s))
        IN  IF answer.ok
              THEN Continue(<<[uid |-> answer.decoded.uid,
                               email |-> answer.decoded.email,
                               emailVerified |-> answer.decoded.email_verified,
                               name |-> answer.decoded.name,
                               picture |-> answer.decoded.picture]>>)
            ELSE IF answer.code = "auth/id-token-expired"
              THEN Rejected(Response(401, ErrorBody("Token expired",
                     Msg("The Firebase ID token has expired. Please get a new token."))))
            ELSE IF answer.code = "auth/argument-error"
              THEN Rejected(Response(401, ErrorBody("Invalid token",
                     Msg("The Firebase ID token is invalid."))))
            ELSE Rejected(Response(401, ErrorBody("Authentication failed", Msg(answer.message))))

VerifyToken ==
  /\ server = "functions"
  /\ stage = "received"
  /\ req.route \in {"analyze", "authUser"}
  /\ \E out \in {verifyToken(req)} :
       /\ reqUser' = out.user
       /\ res' = res \o out.response
       /\ stage' = IF out.next THEN "handler" ELSE "done"
  /\ steps' = Append(steps, "verifyToken")
  /\ UNCHANGED <<server, req, env, fetched, admin>>
  /\ UNCHANGED core
  /\ UNCHANGED other

(***************************************************************************)
(* POST /api/analyze                                                       *)
(***************************************************************************)
\* const { codebase } = req.body
codebaseOf(request) == GetProp(request.body, KeyCodebase)

\* a test that also refuses the empty array
codebaseMissingOrEmpty(request) ==
  ~Truthy(codebaseOf(request)) \/ codebaseOf(request) = VArr(<<>>)

\* !codebase
codebaseMissing(request) == ~Truthy(codebaseOf(request))

CodebaseRequiredMessage == Msg("Please provide a codebase in the request body")

\* functions/index.js: the handler up to the call of analyzeCodebase
AnalyzeFunctions ==
  /\ server = "functions"
  /\ stage = "handler"
  /\ req.route = "analyze"
  /\ steps' = Append(steps, "analyze")
  /\ IF codebaseMissing(req)
       THEN /\ res' = Append(res, Response(400, ErrorBody("Codebase is required", CodebaseRequiredMessage)))
            /\ stage' = "done"
            /\ UNCHANGED <<codebase, pc>>
       ELSE /\ codebase' = codebaseOf(req)
            /\ pc' = "called"
            /\ stage' = "analyzing"
            /\ UNCHANGED res
  /\ UNCHANGED <<files, idx, analysis, error, now, run, prev, engine>>
  /\ UNCHANGED <<server, req, reqUser, env, fetched, admin, other>>

\* server.js: the handler up to the call of analyzeCodebase
AnalyzeLocal ==
  /\ server = "local"
  /\ stage = "received"
  /\ req.route = "analyze"
  /\ steps' = Append(steps, "analyze")
  /\ IF codebaseMissing(req)
       THEN /\ res' = Append(res, Response(400,
                        [JsonBody EXCEPT !.error = <<"Codebase is required">>,
                                         !.message = <<CodebaseRequiredMessage>>]))
            /\ stage' = "done"
            /\ UNCHANGED <<codebase, pc>>
       ELSE /\ codebase' = codebaseOf(req)
            /\ pc' = "called"
            /\ stage' = "analyzing"
            /\ UNCHANGED res
  /\ UNCHANGED <<files, idx, analysis, error, now, run, prev, engine>>
  /\ UNCHANGED <<server, req, reqUser, env, fetched, admin, other>>

\* a report that is told who asked for it
AnalyzedBodyStamped(analysisResult, user) ==
  [JsonBody EXCEPT
     !.success = <<TRUE>>,
     !.data = <<[analysisResult EXCEPT !.insights = Append(@, Insight("info", user.email, <<>>))]>>,
     !.analyzedBy = <<[uid |-> user.uid, email |-> user.email]>>]

\* res.json({ success: true, data: analysisResult, analyzedBy }) of functions/index.js
AnalyzedBody(analysisResult, user) ==
  [JsonBody EXCEPT !.success = <<TRUE>>, !.data = <<analysisResult>>,
                   !.analyzedBy = <<[uid |-> user.uid, email |-> user.email]>>]

\* both handlers after the await: the result, or the catch
AnalyzeRespond ==
  /\ stage = "analyzing"
  /\ pc \in {"returned", "thrown"}
  /\ res' = Append(res,
       IF pc = "thrown"
         THEN Response(500, ErrorBody("Internal server error", error.message))
       ELSE IF server = "functions"
         THEN Response(200, AnalyzedBody(analysis, reqUser[1]))
       ELSE Response(200, [JsonBody EXCEPT !.success = <<TRUE>>, !.data = <<analysis>>]))
  /\ stage' = "done"
  /\ UNCHANGED <<server, req, reqUser, steps, env, fetched, admin>>
  /\ UNCHANGED core
  /\ UNCHANGED other

(***************************************************************************)
(* POST /api/auth/verify and GET /api/auth/user                            *)
(***************************************************************************)
authVerify(request, userRecord) ==
  LET authHeader == request.headers.authorization
  IN  IF ~Truthy(authHeader) \/ ~startsWith(authHeader.s, Bearer)
        THEN Response(401, ErrorBody("Unauthorized", NoTokenMessage))
      ELSE IF bearerToken(authHeader.s) = <<>>
        THEN Response(401, ErrorBody("Unauthorized", Msg("Invalid token format")))
      ELSE
        LET answer == verifyIdToken(bearerToken(authHeader.s))
        IN  IF answer.ok /\ userRecord.ok
              THEN Response(200,
                     [JsonBody EXCEPT
                        !.success = <<TRUE>>,
                        !.authenticated = <<TRUE>>,
                        !.user = <<[uid |-> answer.decoded.uid,
                                    email |-> answer.decoded.email,
                                    emailVerified |-> answer.decoded.email_verified,
                                    name |-> TextOr(answer.decoded.name, userRecord.displayName),
                                    picture |-> TextOr(answer.decoded.picture, userRecord.photoURL),
                                    createdAt |-> userRecord.creationTime,
                                    lastSignIn |-> userRecord.lastSignInTime]>>])
            ELSE IF ~answer.ok /\ answer.code = "auth/id-token-expired"
              THEN Response(401, AuthErrorBody("Token expired",
                     Msg("The Firebase ID token has expired. Please get a new token.")))
            ELSE IF ~answer.ok /\ answer.code = "auth/argument-error"
              THEN Response(401, AuthErrorBody("Invalid token",
                     Msg("The Firebase ID token is invalid.")))
            ELSE Response(401, AuthErrorBody("Authentication failed",
                   Msg(IF answer.ok THEN userRecord.message ELSE answer.message)))

AuthVerify ==
  /\ server = "functions"
  /\ stage = "received"
  /\ req.route = "authVerify"
  /\ \E userRecord \in getUserAnswers : res' = Append(res, authVerify(req, userRecord))
  /\ stage' = "done"
  /\ steps' = Append(steps, "authVerify")
  /\ UNCHANGED <<server, req, reqUser, env, fetched, admin>>
  /\ UNCHANGED core
  /\ UNCHANGED other

authUser(user, userRecord) ==
  IF userRecord.ok
    THEN Response(200,
           [JsonBody EXCEPT
              !.success = <<TRUE>>,
              !.user = <<[uid |-> user.uid,
                          email |-> user.email,
                          emailVerified |-> user.emailVerified,
                          name |-> TextOr(user.name, userRecord.displayName),
                          picture |-> TextOr(user.picture, userRecord.photoURL),
                          createdAt |-> userRecord.creationTime,
                          lastSignIn |-> userRecord.lastSignInTime]>>])
    ELSE Response(500, ErrorBody("Internal server error", Msg(userRecord.message)))

AuthUser ==
  /\ server = "functions"
  /\ stage = "handler"
  /\ req.route = "authUser"
  /\ \E userRecord \in getUserAnswers : res' = Append(res, authUser(reqUser[1], userRecord))
  /\ stage' = "done"
  /\ steps' = Append(steps, "authUser")
  /\ UNCHANGED <<server, req, reqUser, env, fetched, admin>>
  /\ UNCHANGED core
  /\ UNCHANGED other

(***************************************************************************)
(* POST /api/auth/login                                                    *)
(***************************************************************************)
\* req.headers['x-forwarded-for']?.split(',')[0]?.trim()
forwardedFirst(header) ==
  IF header.k # "string" THEN VUndefined
  ELSE VStr(trim(SubSeq(header.s, 1, SkipUntil(header.s, 1, {","}) - 1)))

clientIpOf(request) ==
  OrElse(request.ip, OrElse(request.remoteAddress, forwardedFirst(request.headers.forwardedFor)))

originOf(request) == OrElse(request.headers.origin, request.headers.referer)

allowedOrigins == <<<<"h","t","t","p",":","/","/","1","2","7",".","0",".","0",".","1",":","5","5","0","0">>, <<"h","t","t","p",":","/","/","l","o","c","a","l","h","o","s","t",":","5","5","0","0">>>>

LocalIpTexts == {<<"1","2","7",".","0",".","0",".","1">>, <<":",":","1">>, <<"l","o","c","a","l","h","o","s","t">>}

restrictToLocalhost(request, environment) ==
  LET clientIp == clientIpOf(request)
      origin == originOf(request)
  IN  IF Truthy(origin) /\ ~\E a \in DOMAIN allowedOrigins : includes(origin.s, allowedOrigins[a])
        THEN Rejected(Response(403, AuthErrorBody("Forbidden",
               Msg("Requests from this origin are not allowed. Only requests from 127.0.0.1:5500 are accepted."))))
      ELSE IF /\ Truthy(clientIp)
              /\ \A local \in LocalIpTexts : ~includes(clientIp.s, local)
              /\ environment.NODE_ENV # "production"
        THEN Rejected(Response(403, AuthErrorBody("Forbidden",
               Msg("Requests from this IP are not allowed. Only requests from 127.0.0.1 are accepted."))))
      ELSE Continue(<<>>)

RestrictToLocalhost ==
  /\ server = "functions"
  /\ stage = "received"
  /\ req.route = "login"
  /\ \E out \in {restrictToLocalhost(req, env)} :
       /\ res' = res \o out.response
       /\ stage' = IF out.next THEN "handler" ELSE "done"
  /\ steps' = Append(steps, "restrictToLocalhost")
  /\ UNCHANGED <<server, req, reqUser, env, fetched, admin>>
  /\ UNCHANGED core
  /\ UNCHANGED other

\* the handler up to the fetch of signInWithPassword
LoginValidate ==
  /\ server = "functions"
  /\ stage = "handler"
  /\ req.route = "login"
  /\ steps' = Append(steps, "login")
  /\ IF ~Truthy(GetProp(req.body, KeyEmail)) \/ ~Truthy(GetProp(req.body, KeyPassword))
       THEN /\ res' = Append(res, Response(400, AuthErrorBody("Missing credentials",
                        Msg("Email and password are required"))))
            /\ stage' = "done"
     ELSE IF ~env.webApiKey
       THEN /\ res' = Append(res, Response(500, AuthErrorBody("Configuration error",
                        Msg("Firebase Web API Key is not configured. Please set FIREBASE_WEB_API_KEY environment variable."))))
            /\ stage' = "done"
     ELSE /\ stage' = "signIn"
          /\ UNCHANGED res
  /\ UNCHANGED <<server, req, reqUser, env, fetched, admin>>
  /\ UNCHANGED core
  /\ UNCHANGED other

\* what the fetch of signInWithPassword gives: a refusal with or without a
\* message, the tokens, or a failure of the fetch itself
signInAnswers ==
  {[kind |-> "refused", errorMessage |-> "INVALID_PASSWORD", idToken |-> <<>>],
   [kind |-> "refused", errorMessage |-> "TOO_MANY_ATTEMPTS_TRY_LATER", idToken |-> <<>>],
   [kind |-> "refused", errorMessage |-> "", idToken |-> <<>>],
   [kind |-> "accepted", errorMessage |-> "", idToken |-> TokenAlice],
   [kind |-> "accepted", errorMessage |-> "", idToken |-> TokenDown],
   [kind |-> "failed", errorMessage |-> "fetch failed", idToken |-> <<>>]}

errorMessages ==
  [code \in {"INVALID_EMAIL", "INVALID_PASSWORD", "USER_DISABLED", "USER_NOT_FOUND",
             "WRONG_PASSWORD", "EMAIL_NOT_FOUND", "INVALID_LOGIN_CREDENTIALS",
             "MISSING_PASSWORD", "MISSING_EMAIL"} |->
     CASE code = "INVALID_EMAIL" -> "Invalid email address"
       [] code = "INVALID_PASSWORD" -> "Invalid password"
       [] code = "USER_DISABLED" -> "This user account has been disabled"
       [] code = "USER_NOT_FOUND" -> "No user found with this email"
       [] code = "WRONG_PASSWORD" -> "Incorrect password"
       [] code = "EMAIL_NOT_FOUND" -> "No account found with this email"
       [] code = "INVALID_LOGIN_CREDENTIALS" -> "Invalid email or password"
       [] code = "MISSING_PASSWORD" -> "Password is required"
       [] code = "MISSING_EMAIL" -> "Email is required"]

getErrorMessage(errorCode) ==
  IF errorCode \in DOMAIN errorMessages THEN errorMessages[errorCode] ELSE "Authentication failed"

\* the tokens handed out as the sign-in service gave them, unverified
loginUnverified(signIn, userRecord) ==
  IF signIn.kind = "accepted"
    THEN Response(200,
           [JsonBody EXCEPT
              !.success = <<TRUE>>,
              !.authenticated = <<TRUE>>,
              !.message = <<Msg("Authentication successful")>>,
              !.tokens = <<[idToken |-> signIn.idToken,
                            refreshToken |-> "refresh-token",
                            expiresIn |-> "3600"]>>])
    ELSE Response(401, AuthErrorBody("INVALID_LOGIN_CREDENTIALS", Msg("Invalid email or password")))

login(signIn, userRecord) ==
  IF signIn.kind = "failed"
    THEN Response(500, AuthErrorBody("Internal server error", Msg(signIn.errorMessage)))
  ELSE IF signIn.kind = "refused"
    THEN LET errorCode == TextOr(signIn.errorMessage, "INVALID_LOGIN_CREDENTIALS")
         IN  Response(401, AuthErrorBody(errorCode, Msg(getErrorMessage(errorCode))))
  ELSE
    LET answer == verifyIdToken(signIn.idToken)
    IN  IF ~answer.ok
          THEN Response(500, AuthErrorBody("Internal server error", Msg(answer.message)))
        ELSE IF ~userRecord.ok
          THEN Response(500, AuthErrorBody("Internal server error", Msg(userRecord.message)))
        ELSE Response(200,
               [JsonBody EXCEPT
                  !.success = <<TRUE>>,
                  !.authenticated = <<TRUE>>,
                  !.message = <<Msg("Authentication successful")>>,
                  !.user = <<[uid |-> answer.decoded.uid,
                              email |-> answer.decoded.email,
                              emailVerified |-> answer.decoded.email_verified,
                              name |-> TextOr(userRecord.displayName, answer.decoded.name),
                              picture |-> TextOr(userRecord.photoURL, answer.decoded.picture),
                              createdAt |-> userRecord.creationTime,
                              lastSignIn |-> userRecord.lastSignInTime]>>,
                  !.tokens = <<[idToken |-> signIn.idToken,
                                refreshToken |-> "refresh-token",
                                expiresIn |-> "3600"]>>])

\* the handler from the answer of the fetch on
LoginSignIn ==
  /\ server = "functions"
  /\ stage = "signIn"
  /\ \E signIn \in signInAnswers : \E userRecord \in getUserAnswers :
       /\ res' = Append(res, login(signIn, userRecord))
       /\ fetched' = signIn
  /\ stage' = "done"
  /\ steps' = Append(steps, "signIn")
  /\ UNCHANGED <<server, req, reqUser, env, admin>>
  /\ UNCHANGED core
  /\ UNCHANGED other

(***************************************************************************)
(* The requests                                                            *)
(***************************************************************************)
AuthorizationHeaders ==
  {VUndefined,
   VStr(<<>>),
   VStr(<<"B","a","s","i","c"," ","Y","W","x","p","Y","2","U","6","e","A","=","=">>),
   VStr(<<"b","e","a","r","e","r"," ","a","l","i","c","e">>),
   VStr(<<"B","e","a","r","e","r"," ">>),
   VStr(<<"B","e","a","r","e","r"," ","a","l","i","c","e">>),
   VStr(<<"B","e","a","r","e","r"," ","b","o","b">>),
   VStr(<<"B","e","a","r","e","r"," ","o","l","d">>),
   VStr(<<"B","e","a","r","e","r"," ","j","u","n","k">>),
   VStr(<<"B","e","a","r","e","r"," ","d","o","w","n">>),
   VStr(<<"B","e","a","r","e","r"," ","a","l","i","c","e"," ","B","e","a","r","e","r"," ","b","o","b">>)}

BodyWith(key, val) == VObj(<<[key |-> key, val |-> val]>>)

\* what the body may carry under codebase
Payloads ==
  {VArr(<<>>),
   VStr(<<>>),
   VNum(FALSE),
   VNum(TRUE),
   VBool(FALSE),
   VNull,
   VObj(<<>>),
   VStr(<<"x">>),
   VStr(<<"[","]">>),
   VArr(<<FileRecord(<<"a",".","j","s">>, <<"x">>)>>),
   VArr(<<FileRecord(<<"a",".","j","s">>, <<"x">>), FileRecord(<<"b",".","p","y">>, <<"x">>)>>),
   VArr(<<VNull>>),
   VArr(<<FileRecord(<<"a",".","j","s">>, <<"x">>), VNull>>)}

AnalyzeBodies ==
  {VObj(<<>>), BodyWith(KeyName, VStr(<<"x">>))} \cup {BodyWith(KeyCodebase, payload) : payload \in Payloads}

Request(route, authorization, body) ==
  [NoRequest EXCEPT !.route = route, !.headers.authorization = authorization, !.body = body]

\* the Origin and the Referer header of a request
OriginHeaders ==
  {<<VUndefined, VUndefined>>,
   <<VStr(<<"h","t","t","p",":","/","/","1","2","7",".","0",".","0",".","1",":","5","5","0","0">>), VUndefined>>,
   <<VStr(<<"h","t","t","p",":","/","/","l","o","c","a","l","h","o","s","t",":","5","5","0","0">>), VUndefined>>,
   <<VStr(<<"h","t","t","p",":","/","/","e","v","i","l",".","e","x","a","m","p","l","e">>), VUndefined>>,
   <<VStr(<<"h","t","t","p",":","/","/","l","o","c","a","l","h","o","s","t",":","5","5","0","0",".","e","v","i","l",".","e","x","a","m","p","l","e">>), VUndefined>>,
   <<VUndefined, VStr(<<"h","t","t","p",":","/","/","l","o","c","a","l","h","o","s","t",":","5","5","0","0","/","l","o","g","i","n",".","h","t","m","l">>)>>,
   <<VUndefined, VStr(<<"h","t","t","p",":","/","/","e","v","i","l",".","e","x","a","m","p","l","e","/","?","f","r","o","m","=","h","t","t","p",":","/","/","1","2","7",".","0",".","0",".","1",":","5","5","0","0">>)>>,
   <<VStr(<<"h","t","t","p",":","/","/","e","v","i","l",".","e","x","a","m","p","l","e">>), VStr(<<"h","t","t","p",":","/","/","l","o","c","a","l","h","o","s","t",":","5","5","0","0","/","l","o","g","i","n",".","h","t","m","l">>)>>}

\* req.ip, req.connection.remoteAddress and the x-forwarded-for header
Addresses ==
  {<<VStr(<<"1","2","7",".","0",".","0",".","1">>), VStr(<<"1","2","7",".","0",".","0",".","1">>), VUndefined>>,
   <<VStr(<<":",":","1">>), VStr(<<":",":","1">>), VUndefined>>,
   <<VStr(<<":",":","f","f","f","f",":","1","2","7",".","0",".","0",".","1">>), VStr(<<":",":","f","f","f","f",":","1","2","7",".","0",".","0",".","1">>), VUndefined>>,
   <<VStr(<<"1","0",".","0",".","0",".","5">>), VStr(<<"1","0",".","0",".","0",".","5">>), VUndefined>>,
   <<VStr(<<"2","0","0","1",":","d","b","8",":",":","1">>), VStr(<<"2","0","0","1",":","d","b","8",":",":","1">>), VUndefined>>,
   <<VUndefined, VStr(<<"1","0",".","0",".","0",".","5">>), VStr(<<"1","2","7",".","0",".","0",".","1">>)>>,
   <<VUndefined, VUndefined, VStr(<<" ","1","0",".","0",".","0",".","5"," ",","," ","1","2","7",".","0",".","0",".","1">>)>>,
   <<VUndefined, VUndefined, VStr(<<"1","2","7",".","0",".","0",".","1",","," ","1","0",".","0",".","0",".","5">>)>>,
   <<VUndefined, VUndefined, VUndefined>>}

Credentials ==
  {VObj(<<>>),
   VObj(<<[key |-> KeyEmail, val |-> VStr(<<"a","l","i","c","e","@","e","x","a","m","p","l","e",".","c","o","m">>)]>>),
   VObj(<<[key |-> KeyEmail, val |-> VStr(<<"a","l","i","c","e","@","e","x","a","m","p","l","e",".","c","o","m">>)], [key |-> KeyPassword, val |-> VStr(<<>>)]>>),
   VObj(<<[key |-> KeyEmail, val |-> VStr(<<"a","l","i","c","e","@","e","x","a","m","p","l","e",".","c","o","m">>)], [key |-> KeyPassword, val |-> VStr(<<"s","e","c","r","e","t">>)]>>)}

LoginRequests ==
  {[route |-> "login",
    headers |-> [NoHeaders EXCEPT !.origin = o[1], !.referer = o[2], !.forwardedFor = a[3]],
    ip |-> a[1], remoteAddress |-> a[2], body |-> b] :
     o \in OriginHeaders, a \in Addresses, b \in Credentials}

Requests(program) ==
  IF program = "functions"
    THEN {Request("analyze", h, b) : h \in AuthorizationHeaders, b \in AnalyzeBodies}
         \cup {Request(route, h, VObj(<<>>)) : route \in {"authVerify", "authUser"}, h \in AuthorizationHeaders}
         \cup LoginRequests
    ELSE {Request("analyze", h, b) : h \in {VUndefined, VStr(<<"B","e","a","r","e","r"," ","a","l","i","c","e">>)}, b \in AnalyzeBodies}

Environments == [NODE_ENV : {"development", "production"}, webApiKey : BOOLEAN]

\* initializeApp with the service-account key
CertApp(module) == [credential |-> "serviceAccount", by |-> module]

\* initializeApp with the default credentials
DefaultApp(module) == [credential |-> "default", by |-> module]

\* the block without its guard
initializeFirebaseAdminUnguarded(apps, exists, module) ==
  Append(apps, IF exists THEN CertApp(module) ELSE DefaultApp(module))

\* if (!admin.apps.length) { if (fs.existsSync(serviceAccountPath)) ... else ... }
initializeFirebaseAdmin(apps, exists, module) ==
  IF Len(apps) = 0
    THEN IF exists
           THEN Append(apps, CertApp(module))
           ELSE Append(apps, DefaultApp(module))
    ELSE apps

\* middleware/auth.js is required before the entry module, and runs its block
LoadAuth ==
  /\ server = "functions"
  /\ stage = "loading"
  /\ admin.loaded = <<>>
  /\ admin' = [admin EXCEPT !.apps = initializeFirebaseAdmin(@, admin.keyFile, "auth"),
                            !.loaded = Append(@, "auth")]
  /\ UNCHANGED <<server, req, reqUser, res, stage, steps, env, fetched>>
  /\ UNCHANGED core
  /\ UNCHANGED other

\* index.js runs its block, then requires middleware/auth.js, which runs once
\* per process, and the app is ready for its request
LoadIndex ==
  /\ server = "functions"
  /\ stage = "loading"
  /\ \E own \in {initializeFirebaseAdmin(admin.apps, admin.keyFile, "index")} :
       admin' = IF admin.loaded = <<"auth">>
                  THEN [admin EXCEPT !.apps = own, !.loaded = <<"auth", "index">>]
                  ELSE [admin EXCEPT !.apps = initializeFirebaseAdmin(own, admin.keyFile, "auth"),
                                     !.loaded = <<"index", "auth">>]
  /\ stage' = "received"
  /\ UNCHANGED <<server, req, reqUser, res, steps, env, fetched>>
  /\ UNCHANGED core
  /\ UNCHANGED other

\* one request arrives at one of the two servers; analyzeCodebase is not yet called
ServerInit ==
  /\ codebase = VUndefined
  /\ pc = "idle"
  /\ files = <<>>
  /\ idx = 0
  /\ analysis = NoAnalysis
  /\ error = NoError
  /\ now = 0
  /\ run = 1
  /\ prev = NoOutcome
  /\ engine \in 1..MaxPick
  /\ server \in {"functions", "local"}
  /\ req \in Requests(server)
  /\ env \in (IF req.route = "login" THEN Environments ELSE {Development})
  /\ reqUser = <<>>
  /\ res = <<>>
  /\ stage = (IF server = "functions" THEN "loading" ELSE "received")
  /\ steps = <<>>
  /\ other = NoCall
  /\ fetched = NoAnswer
  /\ admin \in (IF server = "functions"
                  THEN {[NoAdmin EXCEPT !.keyFile = exists] : exists \in BOOLEAN}
                  ELSE {NoAdmin})

\* the same request comes again, a tick later, with the token of another user
RequestAgain ==
  /\ server = "functions"
  /\ req.route = "analyze"
  /\ stage = "done"
  /\ run < MaxRuns
  /\ \E h \in {VStr(Bearer \o TokenAlice), VStr(Bearer \o TokenBob)} \ {req.headers.authorization} :
       req' = [req EXCEPT !.headers.authorization = h]
  /\ prev' = [pc |-> pc, codebase |-> codebase, analysis |-> analysis, error |-> error,
               user |-> reqUser, res |-> res]
  /\ now' = now + 1
  /\ run' = run + 1
  /\ codebase' = VUndefined
  /\ pc' = "idle"
  /\ files' = <<>>
  /\ idx' = 0
  /\ analysis' = NoAnalysis
  /\ error' = NoError
  /\ reqUser' = <<>>
  /\ res' = <<>>
  /\ stage' = "received"
  /\ steps' = <<>>
  /\ UNCHANGED <<engine, server, env, fetched, admin, other>>

ServerNext ==
  \/ LoadAuth
  \/ LoadIndex
  \/ RequestAgain
  \/ VerifyToken
  \/ AnalyzeFunctions
  \/ AnalyzeLocal
  \/ Normalize
  \/ AnalyzeNextFile
  \/ AnalyzeNextFileThrows
  \/ Finish
  \/ AnalyzeRespond
  \/ AuthVerify
  \/ AuthUser
  \/ RestrictToLocalhost
  \/ LoginValidate
  \/ LoginSignIn

ServerSpec == ServerInit /\ [][ServerNext]_vars

(***************************************************************************)
(* Two calls of analyzeCodebase in one process                             *)
(***************************************************************************)
\* what the two callers hand over
ConcurrentSubmissions ==
  {VArr(<<>>),
   VArr(<<FileRecord(<<"a",".","j","s">>, <<"x">>),
          FileRecord(<<"b",".","1">>, <<"/","/"," ","c","\n"," ","*"," ","d","\n","\n","x">>)>>),
   VArr(<<FileRecord(<<"d",".","p","y">>, <<"u00E9","u00E9">>),
          FileRecord(<<"a",".","j","s">>, <<"x">>),
          FileRecord(<<"c",".","p","y">>, <<"d","e","f"," ","f","(","x",")">>)>>),
   VArr(<<FileRecord(<<"a",".","j","s">>, <<"x">>), VNull>>),
   VStr(<<"i","m","p","o","r","t"," ","o","s">>)}

\* both calls are made before either has run
ConcurrentInit ==
  /\ codebase \in ConcurrentSubmissions
  /\ pc = "called"
  /\ files = <<>>
  /\ idx = 0
  /\ analysis = NoAnalysis
  /\ error = NoError
  /\ now = 0
  /\ run = 1
  /\ prev = NoOutcome
  /\ engine \in 1..MaxPick
  /\ server = "none"
  /\ req = NoRequest
  /\ reqUser = <<>>
  /\ res = <<>>
  /\ stage = "concurrent"
  /\ steps = <<>>
  /\ env = Development
  /\ \E cb \in ConcurrentSubmissions : other = [NoCall EXCEPT !.codebase = cb, !.pc = "called"]
  /\ admin = NoAdmin
  /\ fetched = NoAnswer

\* one accumulator for the two calls
SwitchSharedAnalysis ==
  /\ stage = "concurrent"
  /\ other.pc \in {"called", "loop"}
  /\ other' = [codebase |-> codebase, pc |-> pc, files |-> files, idx |-> idx,
                analysis |-> analysis, error |-> error]
  /\ codebase' = other.codebase
  /\ pc' = other.pc
  /\ files' = other.files
  /\ idx' = other.idx
  /\ error' = other.error
  /\ UNCHANGED <<analysis, now, run, prev, engine>>
  /\ UNCHANGED http

\* the process goes on with the other call: each call has its own codebase,
\* files, loop position, analysis and error
Switch ==
  /\ stage = "concurrent"
  /\ other.pc \in {"called", "loop"}
  /\ other' = [codebase |-> codebase, pc |-> pc, files |-> files, idx |-> idx,
                analysis |-> analysis, error |-> error]
  /\ codebase' = other.codebase
  /\ pc' = other.pc
  /\ files' = other.files
  /\ idx' = other.idx
  /\ analysis' = other.analysis
  /\ error' = other.error
  /\ UNCHANGED <<now, run, prev, engine>>
  /\ UNCHANGED http

ConcurrentNext ==
  \/ Normalize
  \/ AnalyzeNextFile
  \/ AnalyzeNextFileThrows
  \/ Finish
  \/ Switch

ConcurrentSpec == ConcurrentInit /\ [][ConcurrentNext]_vars

(***************************************************************************)
(* Properties                                                              *)
(***************************************************************************)
Returned == pc = "returned"

report == analysis

\* the first place of x in seq, 0 if it has none
IndexOf(seq, x) ==
  IF \E m \in DOMAIN seq : seq[m] = x THEN SetMin({m \in DOMAIN seq : seq[m] = x}) ELSE 0

\* the places of the insights of a text
PlacesOfText(text) == {m \in DOMAIN report.insights : report.insights[m].message.text = text}

LargeCodebaseText == LargeCodebaseInsight(0).message.text
MultiLanguageText == MultiLanguageInsight(0).message.text
MostCommonText == "Most common file type: .${} (${} files)"
LargeFilesText == LargeFilesInsight.message.text
ManyFunctionsText == ManyFunctionsInsight(0).message.text

\* a file record: a plain object whose path, name, content and code, where it
\* has them, are strings
RecordKeys == {KeyPath, KeyName, KeyContent, KeyCode}

IsFileRecord(v) ==
  /\ v.k = "object"
  /\ \A m \in DOMAIN v.members : v.members[m].key \in RecordKeys /\ v.members[m].val.k = "string"

IsFileRecords(cb) == cb.k = "array" /\ \A i \in DOMAIN cb.items : IsFileRecord(cb.items[i])

\* the path of a file record: its path, else its name, else the placeholder
RecordPath(rec) ==
  IF HasOwn(rec.members, KeyPath) /\ OwnVal(rec.members, KeyPath).s # <<>>
    THEN OwnVal(rec.members, KeyPath).s
  ELSE IF HasOwn(rec.members, KeyName) /\ OwnVal(rec.members, KeyName).s # <<>>
    THEN OwnVal(rec.members, KeyName).s
  ELSE <<"u","n","k","n","o","w","n">>

\* C1: a submission that is a sequence of n file records is not refused, and
\* its report has n files, the i-th with the path of the i-th record, and
\* totalFiles = n
C1_FilesFollowInput ==
  IsFileRecords(codebase) =>
    /\ pc # "thrown"
    /\ Returned =>
         /\ Len(report.files) = Len(codebase.items)
         /\ report.summary.totalFiles = Len(codebase.items)
         /\ \A i \in DOMAIN codebase.items : report.files[i].path = RecordPath(codebase.items[i])

C1_Witness ==
  /\ Returned
  /\ IsFileRecords(codebase)
  /\ Len(codebase.items) = 2
  /\ HasOwn(codebase.items[1].members, KeyName)
  /\ report.files[1].path # report.files[2].path

\* C2: no call of analyzeCodebase on a string, an array or a single object
\* raises an error, whatever the shape of its elements and of their fields
C2_NeverFails == codebase.k \in {"string", "array", "object"} => pc # "thrown"

\* the lines of the i-th file of the call
LinesOf(i) == splitNewline(fileContentOf(files[i]).s)

Contains(s, lit) == \E p \in 1..Len(s) : LitAt(s, p, lit)

\* a line of code with a comment marker after the code
MixesCodeAndComment(line) ==
  /\ ~IsBlankLine(line)
  /\ ~IsCommentLine(line)
  /\ Contains(line, LitLineComment) \/ Contains(line, LitBlockComment)

\* C3: in every file analysis codeLines + commentLines + blankLines <= lines,
\* with equality when no line mixes code and a trailing comment marker
C3_LineCategoriesDisjoint ==
  \A i \in DOMAIN report.files :
    LET f == report.files[i]
    IN  /\ f.codeLines + f.commentLines + f.blankLines <= f.lines
        /\ (\A l \in DOMAIN LinesOf(i) : ~MixesCodeAndComment(LinesOf(i)[l]))
             => f.codeLines + f.commentLines + f.blankLines = f.lines

RECURSIVE SumLines(_, _)
SumLines(fs, n) == IF n = 0 THEN 0 ELSE fs[n].lines + SumLines(fs, n - 1)

RECURSIVE SumSize(_, _)
SumSize(fs, n) == IF n = 0 THEN 0 ELSE fs[n].size + SumSize(fs, n - 1)

\* C4: in every report totalLines is the sum of lines and totalSize the sum
\* of size over the files of the report
C4_TotalsAreSums ==
  Returned =>
    /\ report.statistics.totalLines = SumLines(report.files, Len(report.files))
    /\ report.statistics.totalSize = SumSize(report.files, Len(report.files))

C4_Witness ==
  /\ Returned
  /\ Len(report.files) = 2
  /\ report.files[1].lines > 1
  /\ report.files[2].size > Len(fileContentOf(files[2]).s)
  /\ report.statistics.totalSize = report.files[1].size + report.files[2].size

EmptyText == <<>>
EmptyArrayTexts == {<<"[","]">>, <<" ","["," ","]"," ">>}

OnlyNoFilesWarning ==
  /\ report.summary.totalFiles = 0
  /\ report.insights = <<[type |-> "warning",
                          message |-> [text |-> "No files found in codebase", args |-> <<>>]]>>

\* C5 as claimed: the empty array and the empty string both give totalFiles = 0
\* and the one warning that no files were found
C5_EmptySubmission ==
  (Returned /\ (codebase = VArr(<<>>) \/ codebase = VStr(EmptyText))) => OnlyNoFilesWarning

\* C5 as amended: the empty array, and a text that parses to the empty array,
\* give totalFiles = 0 and the one warning; the empty string is no JSON text
\* and gives the report of the one file "file" of empty content, without insights
C5_EmptySubmissionAmended ==
  /\ (codebase = VArr(<<>>) \/ (codebase.k = "string" /\ codebase.s \in EmptyArrayTexts))
       => pc # "thrown" /\ (Returned => OnlyNoFilesWarning)
  /\ codebase = VStr(EmptyText)
       => /\ pc # "thrown"
          /\ Returned =>
               /\ report.summary.totalFiles = 1
               /\ Len(report.files) = 1
               /\ report.files[1].path = <<"f","i","l","e">>
               /\ report.files[1].size = 0
               /\ report.insights = <<>>

C5_Witness ==
  /\ Returned
  /\ codebase.k = "string"
  /\ codebase.s \in EmptyArrayTexts
  /\ OnlyNoFilesWarning

\* C6: the second of two calls on the same submission ends as the first did,
\* with the same files, statistics and insights
C6_Deterministic ==
  (run > 1 /\ pc \in {"returned", "thrown"} /\ prev.codebase = codebase) =>
    /\ prev.pc = pc
    /\ prev.error = error
    /\ prev.analysis.files = report.files
    /\ prev.analysis.statistics = report.statistics
    /\ prev.analysis.insights = report.insights

C6_Witness ==
  /\ run > 1
  /\ Returned
  /\ prev.codebase = codebase
  /\ prev.analysis.summary.analyzedAt # report.summary.analyzedAt
  /\ Len(report.files) = 2
  /\ report.insights # <<>>
  /\ prev.analysis.insights = report.insights

\* the place of an insight in the order of the rules, by its text
RuleOrder == <<LargeCodebaseText, MultiLanguageText, MostCommonText, LargeFilesText, ManyFunctionsText>>

Rank(insight) == IndexOf(RuleOrder, insight.message.text)

\* what each rule asks of the report, by itself
RuleAsks ==
  << report.summary.totalFiles > 100,
     Len(report.statistics.languages) > 3,
     report.statistics.fileTypes # <<>>,
     report.statistics.totalSize > 10000 * report.summary.totalFiles,
     \E i \in DOMAIN report.files : report.files[i].metrics.functionCount > 10 >>

\* C7: with totalFiles > 0 the insights are among the five of the rules, in
\* the order of the rules, each at most once, and each is there exactly when
\* the report meets its own condition, whatever the other rules did
C7_RulesInOrderIndependent ==
  (Returned /\ report.summary.totalFiles > 0) =>
    /\ \A m \in DOMAIN report.insights : Rank(report.insights[m]) > 0
    /\ \A m, o \in DOMAIN report.insights :
         m < o => Rank(report.insights[m]) < Rank(report.insights[o])
    /\ \A r \in DOMAIN RuleOrder : RuleAsks[r] <=> PlacesOfText(RuleOrder[r]) # {}

C7_Witness ==
  /\ Returned
  /\ Len(report.insights) = 4
  /\ PlacesOfText(LargeCodebaseText) = {1}
  /\ PlacesOfText(LargeFilesText) = {}
  /\ PlacesOfText(ManyFunctionsText) = {4}

\* the suffix of the i-th file of the report, <<>> if it has none
SuffixOf(i) == getFileExtension(report.files[i].path)

Typed == {i \in DOMAIN report.files : SuffixOf(i) # <<>>}

CountOfSuffix(suffix) == Cardinality({i \in Typed : SuffixOf(i) = suffix})

MaxCount == SetMax({CountOfSuffix(SuffixOf(i)) : i \in Typed})

\* the suffix of largest count that comes first in the input
FirstMostCommon == SuffixOf(SetMin({i \in Typed : CountOfSuffix(SuffixOf(i)) = MaxCount}))

\* C8: the most-common-file-type insight is there iff some file has a suffix,
\* and it names the suffix of largest count that comes first in the input,
\* with its count
C8_MostCommonFirstEncountered ==
  (Returned /\ report.summary.totalFiles > 0) =>
    /\ PlacesOfText(MostCommonText) # {} <=> Typed # {}
    /\ \A m \in PlacesOfText(MostCommonText) :
         report.insights[m].message.args = <<FirstMostCommon, ToDecimal(MaxCount)>>

\* 101 files of distinct paths, of trivial content, of five suffixes
IsManyTrivialFiles(cb) ==
  /\ IsFileRecords(cb)
  /\ Len(cb.items) = 101
  /\ \A i, j \in DOMAIN cb.items : i # j => RecordPath(cb.items[i]) # RecordPath(cb.items[j])
  /\ \A i \in DOMAIN cb.items : fileContentOf(cb.items[i]).s = TrivialContent
  /\ Cardinality({getFileExtension(RecordPath(cb.items[i])) : i \in DOMAIN cb.items}) = 5
  /\ \A i \in DOMAIN cb.items : getFileExtension(RecordPath(cb.items[i])) # <<>>

\* the languages the table gives the suffixes of a submission
TableLanguages(cb) ==
  {languageMapGet(getFileExtension(RecordPath(cb.items[i]))) : i \in DOMAIN cb.items} \ {""}

LargeThenMultiLanguage ==
  /\ \E m \in PlacesOfText(LargeCodebaseText) :
       /\ report.insights[m].message.args = <<<<"1","0","1">>>>
       /\ \E o \in PlacesOfText(MultiLanguageText) : m < o

FunctionsFile(n) == VArr(<<FileRecord(<<"f",".","j","s">>, Repeat(FunctionDecl, n))>>)

ManyFunctionFiles == {i \in DOMAIN report.files : report.files[i].metrics.functionCount > 10}

\* C10: the many-functions warning is there iff some file has more than 10
\* functions, and cites the number of such files; one file of 11 function
\* declarations gives the warning for 1 file, one of 10 gives none
C10_ManyFunctionsWarning ==
  Returned =>
    /\ PlacesOfText(ManyFunctionsText) # {}
         <=> (report.summary.totalFiles > 0 /\ ManyFunctionFiles # {})
    /\ \A m \in PlacesOfText(ManyFunctionsText) :
         /\ report.insights[m].type = "warning"
         /\ report.insights[m].message.args = <<ToDecimal(Cardinality(ManyFunctionFiles))>>
    /\ codebase = FunctionsFile(11) =>
         /\ report.files[1].metrics.functionCount = 11
         /\ \E m \in PlacesOfText(ManyFunctionsText) : report.insights[m].message.args = <<<<"1">>>>
    /\ codebase = FunctionsFile(10) =>
         /\ report.files[1].metrics.functionCount = 10
         /\ PlacesOfText(ManyFunctionsText) = {}

C10_Witness ==
  /\ Returned
  /\ Len(report.files) = 3
  /\ report.files[1].metrics.functionCount = 10
  /\ Cardinality(ManyFunctionFiles) = 2
  /\ PlacesOfText(ManyFunctionsText) # {}

(***************************************************************************)
(* Suffix and label                                                        *)
(***************************************************************************)
TextAfterLastDot(path) ==
  LET dots == {q \in 1..Len(path) : path[q] = "."}
  IN  IF dots = {} THEN <<>> ELSE SubSeq(path, SetMax(dots) + 1, Len(path))

\* a text with each capital letter replaced by its small one
IgnoreCase(s) ==
  <<>> \o [q \in 1..Len(s) |->
             IF \E u \in DOMAIN UpperLetters : UpperLetters[u] = s[q]
               THEN LowerLetters[CHOOSE u \in DOMAIN UpperLetters : UpperLetters[u] = s[q]]
               ELSE s[q]]

\* the entries of the table whose key is, ignoring case, the text after the last "."
TableEntries(path) ==
  UNION {{e \in Range(languageMap) : e.key = s} : s \in {IgnoreCase(TextAfterLastDot(path))}}

UpperSuffixFile == FileRecord(<<"M",".","P","Y">>, <<"f","u","n","c","t","i","o","n"," ","f">>)

\* C11: a file whose text after the last "." is, ignoring case, a key of the
\* table has the label of that key whatever its content; a ".PY" path over a
\* content that looks like JavaScript is Python
C11_SuffixBeforeContent ==
  /\ \A i \in DOMAIN report.files :
       \A e \in TableEntries(report.files[i].path) : report.files[i].language = e.val
  /\ \A i \in DOMAIN report.files :
       (files[i] = UpperSuffixFile) => report.files[i].language = "Python"

C11_Witness ==
  /\ Returned
  /\ Len(files) = 2
  /\ files[1] = UpperSuffixFile
  /\ looksLikeJavaScript(fileContentOf(files[1]).s)
  /\ report.files[1].path = <<"M",".","P","Y">>
  /\ report.files[1].language = "Python"
  /\ report.files[2].language = "JavaScript"

Labels == {languageMap[k].val : k \in DOMAIN languageMap} \cup {"JavaScript", "Python", "Unknown"}

\* C12: the label of every file is a value of the table, JavaScript, Python
\* or Unknown; a file of no suffix of the table is JavaScript if its content
\* has the JavaScript pattern, else Python if it has the Python pattern, else
\* Unknown
C12_LabelIsKnown ==
  \A i \in DOMAIN report.files :
    /\ report.files[i].language \in Labels
    /\ TableEntries(report.files[i].path) = {} =>
         report.files[i].language =
           (IF looksLikeJavaScript(fileContentOf(files[i]).s) THEN "JavaScript"
            ELSE IF looksLikePython(fileContentOf(files[i]).s) THEN "Python"
            ELSE "Unknown")

FilesOfSuffix(s) ==
  {i \in DOMAIN report.files : IgnoreCase(TextAfterLastDot(report.files[i].path)) = s}

FilesOfLabel(l) == {i \in DOMAIN report.files : report.files[i].language = l}

\* C13: in a returned report fileTypes has one key for each suffix some file
\* has, its value the number of the files of that suffix, and languages has one
\* key for each label some file has, its value the number of the files of
\* that label
C13_CountsPerSuffixAndLabel ==
  Returned =>
    /\ \A m \in DOMAIN report.statistics.fileTypes :
         LET e == report.statistics.fileTypes[m]
         IN  /\ e.val.isNum
             /\ e.val.n = Cardinality(FilesOfSuffix(e.key))
             /\ e.val.n > 0
             /\ \A o \in DOMAIN report.statistics.fileTypes :
                  report.statistics.fileTypes[o].key = e.key => o = m
    /\ \A i \in DOMAIN report.files :
         LET s == IgnoreCase(TextAfterLastDot(report.files[i].path))
         IN  s # <<>> => HasOwn(report.statistics.fileTypes, s)
    /\ \A m \in DOMAIN report.statistics.languages :
         LET e == report.statistics.languages[m]
         IN  /\ e.val = Cardinality(FilesOfLabel(e.key))
             /\ e.val > 0
    /\ \A i \in DOMAIN report.files :
         HasOwn(report.statistics.languages, report.files[i].language)

(***************************************************************************)
(* Order of the input                                                      *)
(***************************************************************************)
Occurrences(seq, x) == Cardinality({i \in DOMAIN seq : seq[i] = x})

IsReordering(a, b) ==
  /\ Len(a) = Len(b)
  /\ \A x \in Range(a) \cup Range(b) : Occurrences(a, x) = Occurrences(b, x)

\* C14: two returned reports of the same file records in two orders have the
\* same totalLines and totalSize, the same count under each suffix and under
\* each label, and each has its files in the order of its own input
C14_OrderIndependent ==
  ( /\ run > 1
    /\ Returned
    /\ prev.pc = "returned"
    /\ codebase.k = "array"
    /\ prev.codebase.k = "array"
    /\ IsReordering(prev.codebase.items, codebase.items) ) =>
    /\ report.statistics.totalLines = prev.analysis.statistics.totalLines
    /\ report.statistics.totalSize = prev.analysis.statistics.totalSize
    /\ Range(report.statistics.fileTypes) = Range(prev.analysis.statistics.fileTypes)
    /\ Range(report.statistics.languages) = Range(prev.analysis.statistics.languages)
    /\ Len(report.files) = Len(codebase.items)
    /\ Len(prev.analysis.files) = Len(prev.codebase.items)
    /\ \A i \in DOMAIN codebase.items :
         report.files[i].path = filePathOf(codebase.items[i]).s
    /\ \A i \in DOMAIN prev.codebase.items :
         prev.analysis.files[i].path = filePathOf(prev.codebase.items[i]).s

C14_Witness ==
  /\ run > 1
  /\ Returned
  /\ prev.pc = "returned"
  /\ codebase.k = "array"
  /\ Len(codebase.items) = 3
  /\ prev.codebase # codebase
  /\ IsReordering(prev.codebase.items, codebase.items)
  /\ report.files[1] = prev.analysis.files[3]
  /\ report.files[1].lines # report.files[3].lines
  /\ report.statistics.fileTypes # prev.analysis.statistics.fileTypes
  /\ report.statistics.languages # prev.analysis.statistics.languages
  /\ report.statistics.totalLines = prev.analysis.statistics.totalLines

(***************************************************************************)
(* Normalization                                                           *)
(***************************************************************************)
PlaceholderFile(text) == FileRecord(<<"f","i","l","e">>, text)

ArrayText == <<"[","{","\"","p","a","t","h","\"",":","\"","a",".","j","s","\"",",","\"","c","o","n","t","e","n","t","\"",":","\"","x","\"","}","]">>
ObjectText == <<"{","\"","n","a","m","e","\"",":","\"","t",".","p","y","\"",",","\"","c","o","d","e","\"",":","\"","a","\\","n","b","\"","}">>
BrokenText == <<"[","1",",">>
JsText == <<"f","u","n","c","t","i","o","n"," ","f">>
PyText == <<"i","m","p","o","r","t"," ","o","s">>

Normalized == pc \in {"loop", "returned", "thrown"}

WholeTextAs(text, language) ==
  codebase = VStr(text) =>
    /\ Normalized => files = <<PlaceholderFile(text)>>
    /\ pc # "thrown"
    /\ Returned =>
         /\ Len(report.files) = 1
         /\ report.files[1].path = <<"f","i","l","e">>
         /\ report.files[1].size = Len(text)
         /\ report.files[1].language = language

\* C15: the files of a text that parses to a sequence are that sequence, of
\* one that parses to another value that value alone, of one that does not
\* parse one file of path "file" and of the whole text as content, labelled by
\* its content; the files of an array are its elements and the files of an
\* object the object alone
C15_NormalizedByShape ==
  /\ Normalized =>
       /\ codebase.k = "string" =>
            LET parsed == JSONparse(codebase.s)
            IN  /\ (parsed.ok /\ parsed.v.k = "array") => files = parsed.v.items
                /\ (parsed.ok /\ parsed.v.k # "array") => files = <<parsed.v>>
                /\ ~parsed.ok => files = <<PlaceholderFile(codebase.s)>>
       /\ codebase.k = "array" => files = codebase.items
       /\ codebase.k = "object" => files = <<codebase>>
       /\ codebase = VStr(ArrayText) => files = <<FileRecord(<<"a",".","j","s">>, <<"x">>)>>
       /\ codebase = VStr(ObjectText) =>
            files = <<VObj(<<[key |-> KeyName, val |-> VStr(<<"t",".","p","y">>)],
                             [key |-> KeyCode, val |-> VStr(<<"a","\n","b">>)]>>)>>
  /\ WholeTextAs(BrokenText, "Unknown")
  /\ WholeTextAs(JsText, "JavaScript")
  /\ WholeTextAs(PyText, "Python")

C15_Witness ==
  /\ Returned
  /\ codebase = VStr(PyText)
  /\ ~JSONparse(PyText).ok
  /\ files = <<PlaceholderFile(PyText)>>
  /\ report.files[1].language = "Python"

(***************************************************************************)
(* Fields of an element                                                    *)
(***************************************************************************)
FieldIfPresent(rec, first, second, otherwise) ==
  IF HasOwn(rec.members, first) THEN OwnVal(rec.members, first).s
  ELSE IF HasOwn(rec.members, second) THEN OwnVal(rec.members, second).s
  ELSE otherwise

\* C16: a file record is analysed under its path field if it has one, else
\* its name field, else "unknown", and on its content field if it has one,
\* else its code field, else the empty text
C16_PresentFieldWins ==
  \A i \in DOMAIN report.files :
    IsFileRecord(files[i]) =>
      report.files[i] =
        analyzeFile(FieldIfPresent(files[i], KeyPath, KeyName, <<"u","n","k","n","o","w","n">>),
                    FieldIfPresent(files[i], KeyContent, KeyCode, <<>>))

(***************************************************************************)
(* The servers                                                             *)
(***************************************************************************)
\* analyzeCodebase has been called for the request
Invoked == pc # "idle"

LastStep == IF steps = <<>> THEN "" ELSE steps[Len(steps)]

\* the Authorization headers that carry a token Firebase verifies
VerifiableHeaders == {VStr(<<"B","e","a","r","e","r"," ","a","l","i","c","e">>), VStr(<<"B","e","a","r","e","r"," ","b","o","b">>)}

\* C17: analyzeCodebase is called for a request only after verifyToken has
\* verified the token of that request, and a request to /api/analyze whose
\* token is missing, malformed, invalid or expired ends with a 401 and no call
C17_AnalyzeIsProtected ==
  /\ Invoked =>
       /\ steps[1] = "verifyToken"
       /\ reqUser # <<>>
       /\ req.headers.authorization \in VerifiableHeaders
  /\ ( /\ req.route = "analyze"
       /\ stage = "done"
       /\ req.headers.authorization \notin VerifiableHeaders ) =>
       /\ ~Invoked
       /\ Len(res) = 1
       /\ res[1].status = 401

\* C18: every response by which verifyToken or POST /api/auth/verify refuses
\* a request has the status 401 and a body with success false, authenticated
\* false, an error type and a message
C18_AuthErrorFormat ==
  ( /\ stage = "done"
    /\ LastStep \in {"verifyToken", "authVerify"}
    /\ res[1].body.success # <<TRUE>> ) =>
    /\ Len(res) = 1
    /\ res[1].status = 401
    /\ res[1].body.success = <<FALSE>>
    /\ res[1].body.authenticated = <<FALSE>>
    /\ Len(res[1].body.error) = 1
    /\ Len(res[1].body.message) = 1

PermittedOrigins == {<<"h","t","t","p",":","/","/","1","2","7",".","0",".","0",".","1",":","5","5","0","0">>, <<"h","t","t","p",":","/","/","l","o","c","a","l","h","o","s","t",":","5","5","0","0">>}

\* the Origin header names one of the two origins, or there is none and the
\* Referer header names a page of one of them
FromPermittedOrigin(request) ==
  \/ /\ request.headers.origin.k = "string"
     /\ request.headers.origin.s \in PermittedOrigins
  \/ /\ request.headers.origin.k = "undefined"
     /\ request.headers.referer.k = "string"
     /\ \E o \in PermittedOrigins :
          \/ request.headers.referer.s = o
          \/ startsWith(request.headers.referer.s, o \o <<"/">>)

LocalAddresses == {<<"1","2","7",".","0",".","0",".","1">>, <<":",":","1">>, <<":",":","f","f","f","f",":","1","2","7",".","0",".","0",".","1">>}

\* the address the connection comes from is known and is not of this host
FromOtherHost(request) ==
  LET address == IF request.ip.k = "string" THEN request.ip ELSE request.remoteAddress
  IN  address.k = "string" /\ address.s \notin LocalAddresses

\* C19: a request to /api/auth/login that is not from one of the two origins,
\* or that is from another host, is answered 403 Forbidden by
\* restrictToLocalhost and its credentials are never looked at
C19_LoginOnlyFromLocalhost ==
  ( /\ req.route = "login"
    /\ stage \notin {"loading", "received"}
    /\ ~FromPermittedOrigin(req) \/ FromOtherHost(req) ) =>
    /\ steps = <<"restrictToLocalhost">>
    /\ stage = "done"
    /\ Len(res) = 1
    /\ res[1].status = 403
    /\ res[1].body.error = <<"Forbidden">>

AnalyzeHandlerRan == "analyze" \in Range(steps)

CarriesCodebase(request) == HasOwn(request.body.members, KeyCodebase)

CarriedCodebase(request) ==
  IF CarriesCodebase(request) THEN OwnVal(request.body.members, KeyCodebase) ELSE VUndefined

Refused400 ==
  /\ ~Invoked
  /\ stage = "done"
  /\ res[Len(res)].status = 400
  /\ res[Len(res)].body.error = <<"Codebase is required">>

PassedOn ==
  /\ Invoked
  /\ codebase = CarriedCodebase(req)

\* a codebase of one of the shapes of a submission: a text, an array, an object
CarriesSubmission(request) == CarriedCodebase(request).k \in {"string", "array", "object"}

\* C20 as claimed: once the /api/analyze handler has run, a body with no
\* codebase has got the 400 'Codebase is required' and no call of
\* analyzeCodebase, and a body whose codebase is a text, an array or an
\* object has had it passed to analyzeCodebase
C20_PayloadIsPassed ==
  AnalyzeHandlerRan =>
    /\ ~CarriesCodebase(req) => Refused400
    /\ CarriesSubmission(req) => PassedOn

FalsyValues == {VUndefined, VNull, VBool(FALSE), VNum(FALSE), VStr(<<>>)}

\* C20 amended: the 400 and no call for a body with no codebase or with one
\* that is null, false, 0 or the empty text; every other codebase, the empty
\* array included, is passed to analyzeCodebase
C20_FalsyPayloadRefused ==
  AnalyzeHandlerRan =>
    /\ CarriedCodebase(req) \in FalsyValues => Refused400
    /\ CarriedCodebase(req) \notin FalsyValues => PassedOn
    /\ CarriedCodebase(req) = VArr(<<>>) => PassedOn

C20_Witness ==
  /\ AnalyzeHandlerRan
  /\ CarriedCodebase(req) = VArr(<<>>)
  /\ stage = "done"
  /\ pc = "returned"
  /\ res[1].status = 200
  /\ res[1].body.data[1].summary.totalFiles = 0

(***************************************************************************)
(* Failure                                                                 *)
(***************************************************************************)
SuccessEnvelopes == {i \in DOMAIN res : res[i].body.success = <<TRUE>> /\ res[i].body.data # <<>>}

\* C21: a call of analyzeCodebase that aborts raises one error, of message
\* 'Codebase analysis failed: ' and the fault, and leaves no report; the
\* /api/analyze handler then sends exactly one response, of status 500,
\* success false, that message and no data; a response with success true and
\* data is sent only for a whole report
C21_FailureIsUniform ==
  /\ pc = "thrown" =>
       /\ error.message.prefix = "Codebase analysis failed: "
       /\ error.message.cause # ""
       /\ analysis = NoAnalysis
  /\ req.route = "analyze" => Len(res) <= 1
  /\ (pc = "thrown" /\ stage = "done") =>
       /\ Len(res) = 1
       /\ res[1].status = 500
       /\ res[1].body.success = <<FALSE>>
       /\ res[1].body.message = <<error.message>>
       /\ res[1].body.data = <<>>
  /\ \A i \in SuccessEnvelopes :
       /\ pc = "returned"
       /\ res[i].status = 200
       /\ res[i].body.data = <<analysis>>
       /\ Len(analysis.files) = Len(files)
       /\ analysis.summary.totalFiles = Len(files)

C21_Witness ==
  /\ pc = "thrown"
  /\ stage = "done"
  /\ idx = 1
  /\ Len(files) = 2
  /\ Len(res) = 1
  /\ res[1].status = 500
  /\ res[1].body.message[1].prefix = "Codebase analysis failed: "

(***************************************************************************)
(* The caller's identity                                                   *)
(***************************************************************************)
BothAnalyzed ==
  /\ run > 1
  /\ stage = "done"
  /\ SuccessEnvelopes # {}
  /\ prev.res # <<>>
  /\ prev.res[1].body.success = <<TRUE>>
  /\ prev.user # reqUser

\* C22: two /api/analyze requests of the same codebase by two verified users
\* get the same files, statistics and insights; the two responses differ in
\* analyzedBy, which names the user of each
C22_IdentityOnlyInEnvelope ==
  BothAnalyzed =>
    /\ prev.codebase = codebase
    /\ res[1].body.data[1].files = prev.res[1].body.data[1].files
    /\ res[1].body.data[1].statistics = prev.res[1].body.data[1].statistics
    /\ res[1].body.data[1].insights = prev.res[1].body.data[1].insights
    /\ res[1].body.analyzedBy = <<[uid |-> reqUser[1].uid, email |-> reqUser[1].email]>>
    /\ prev.res[1].body.analyzedBy = <<[uid |-> prev.user[1].uid, email |-> prev.user[1].email]>>
    /\ res[1].body.analyzedBy # prev.res[1].body.analyzedBy

C22_Witness ==
  /\ BothAnalyzed
  /\ prev.user[1].uid = "uid-alice"
  /\ reqUser[1].uid = "uid-bob"
  /\ Len(res[1].body.data[1].files) = 2
  /\ res[1].body.data[1].insights # <<>>
  /\ res[1].body.data[1].summary.analyzedAt # prev.res[1].body.data[1].summary.analyzedAt

(***************************************************************************)
(* Two calls at once                                                       *)
(***************************************************************************)
\* the analysis after the files from position i on, one after the other
RECURSIVE AnalyzedFrom(_, _, _)
AnalyzedFrom(fs, i, acc) ==
  IF i > Len(fs) THEN acc
  ELSE Bind(analyzeFile(filePathOf(fs[i]).s, fileContentOf(fs[i]).s), LAMBDA fileAnalysis :
         AnalyzedFrom(fs, i + 1,
           [acc EXCEPT
              !.files = Append(@, fileAnalysis),
              !.statistics = updateStatistics(@, fileAnalysis,
                               filePathOf(fs[i]).s, fileContentOf(fs[i]).s)]))

\* what a call on a submission gives when no other call runs
Alone(cb, pick) ==
  Bind(normalizeFiles(cb), LAMBDA fs :
    IF \E i \in DOMAIN fs : loopFault(fs[i]) # ""
      THEN [pc |-> "thrown", analysis |-> NoAnalysis,
            error |-> AnalysisFailed(loopFault(fs[SetMin({i \in DOMAIN fs : loopFault(fs[i]) # ""})]))]
      ELSE Bind(AnalyzedFrom(fs, 1, newAnalysis(fs, 0)), LAMBDA done :
             [pc |-> "returned",
              analysis |-> [done EXCEPT !.insights = generateInsights(done, pick)],
              error |-> NoError]))

ThisCall ==
  [codebase |-> codebase, pc |-> pc, files |-> files, idx |-> idx,
   analysis |-> analysis, error |-> error]

SameAsAlone(call) ==
  call.pc \in {"returned", "thrown"} =>
    Bind(Alone(call.codebase, engine), LAMBDA alone :
      /\ call.pc = alone.pc
      /\ call.error = alone.error
      /\ call.analysis.files = alone.analysis.files
      /\ call.analysis.statistics = alone.analysis.statistics
      /\ call.analysis.insights = alone.analysis.insights)

\* C23: whatever the interleaving of two calls of analyzeCodebase, each
\* ends as the same submission ends when it is analysed alone: the same
\* files, statistics and insights, or the same error
C23_ConcurrentCallsIndependent ==
  stage = "concurrent" => (SameAsAlone(ThisCall) /\ SameAsAlone(other))

C23_Witness ==
  /\ stage = "concurrent"
  /\ pc = "returned"
  /\ Len(report.files) = 2
  /\ other.pc = "loop"
  /\ other.idx = 1
  /\ Len(other.files) = 3
  /\ Len(other.analysis.files) = 1
  /\ other.codebase # codebase

(***************************************************************************)
(* Warnings                                                                *)
(***************************************************************************)
Warnings == {m \in DOMAIN report.insights : report.insights[m].type = "warning"}

NoFilesText == NoFilesInsight.message.text

SmallFile == VArr(<<FileRecord(<<"a","p","p",".","j","s">>, <<"c","o","n","s","o","l","e",".","l","o","g","(","\"","h","i","\"",")",";">>)>>)

\* C24: a report has the large-files warning iff it has files and their
\* total size is more than 10000 times their number; every warning of a
\* report is the no-files, the large-files or the many-functions warning,
\* with its condition true; the one file app.js of one console.log statement
\* gives totalFiles 1, JavaScript, 1 line, fileTypes {js: 1}, languages
\* {JavaScript: 1} and no warning
C24_WarningsOnlyWhenDue ==
  Returned =>
    /\ PlacesOfText(LargeFilesText) # {} <=>
         ( /\ report.summary.totalFiles > 0
           /\ report.statistics.totalSize > 10000 * report.summary.totalFiles )
    /\ \A m \in Warnings :
         \/ /\ report.insights[m].message.text = NoFilesText
            /\ report.summary.totalFiles = 0
         \/ /\ report.insights[m].message.text = LargeFilesText
            /\ report.statistics.totalSize > 10000 * report.summary.totalFiles
         \/ /\ report.insights[m].message.text = ManyFunctionsText
            /\ \E i \in DOMAIN report.files : report.files[i].metrics.functionCount > 10
    /\ codebase = SmallFile =>
         /\ report.summary.totalFiles = 1
         /\ report.files[1].language = "JavaScript"
         /\ report.files[1].lines = 1
         /\ report.statistics.fileTypes = <<[key |-> <<"j","s">>, val |-> CountNum(1)]>>
         /\ report.statistics.languages = <<[key |-> "JavaScript", val |-> 1]>>
         /\ Warnings = {}

C24_Witness ==
  /\ Returned
  /\ report.summary.totalFiles = 1
  /\ report.statistics.totalSize = 10000
  /\ Warnings = {}
  /\ report.insights # <<>>

(***************************************************************************)
(* Firebase Admin in one process                                           *)
(***************************************************************************)
\* C25: whichever of index.js and middleware/auth.js is loaded first,
\* admin.apps never holds more than one app; once a module is loaded it
\* holds exactly one, made by the module loaded first, with the
\* service-account key iff config/firebase-service-account.json exists and
\* with the default credentials otherwise
C25_InitializedOnce ==
  /\ Len(admin.apps) <= 1
  /\ admin.loaded # <<>> =>
       /\ Len(admin.apps) = 1
       /\ admin.apps[1].by = admin.loaded[1]
       /\ admin.apps[1].credential = (IF admin.keyFile THEN "serviceAccount" ELSE "default")

\* the middleware was loaded first, the key file is there, and the process
\* has answered its second request
C25_Witness ==
  /\ admin.loaded = <<"auth", "index">>
  /\ admin.keyFile
  /\ admin.apps = <<CertApp("auth")>>
  /\ run = 2
  /\ stage = "done"

(***************************************************************************)
(* The three line counts of a file                                         *)
(***************************************************************************)
\* the lines of the i-th file whose text, leading white space aside, begins
\* with one of the markers
LinesStarting(i, markers) ==
  {l \in DOMAIN LinesOf(i) : \E m \in markers : startsWith(trim(LinesOf(i)[l]), m)}

\* the lines of the i-th file that hold white space only
LinesEmpty(i) == {l \in DOMAIN LinesOf(i) : trim(LinesOf(i)[l]) = <<>>}

\* C26: in every file analysis codeLines + commentLines + blankLines is
\* lines + k, k the number of lines whose trimmed text starts with '*': the
\* blank lines are counted as blank only, the lines starting with '//' or
\* '/*' as comment only, the lines starting with '*' as comment and as code,
\* every other line as code only
C26_LineCountsOverlapOnStars ==
  \A i \in DOMAIN report.files :
    LET f     == report.files[i]
        blank == Cardinality(LinesEmpty(i))
        slash == Cardinality(LinesStarting(i, {<<"/","/">>, <<"/","*">>}))
        star  == Cardinality(LinesStarting(i, {<<"*">>}))
    IN  /\ f.lines = Len(LinesOf(i))
        /\ f.blankLines = blank
        /\ f.commentLines = slash + star
        /\ f.codeLines = f.lines - blank - slash
        /\ f.codeLines + f.commentLines + f.blankLines = f.lines + star
        /\ f.codeLines + f.commentLines + f.blankLines >= f.lines

\* a returned report with a file of four lines: a '//' line, a '*' line, an
\* empty line and a line of code
C26_Witness ==
  /\ Returned
  /\ \E i \in DOMAIN report.files :
       /\ Cardinality(LinesStarting(i, {<<"*">>})) = 1
       /\ Cardinality(LinesStarting(i, {<<"/","/">>})) = 1
       /\ Cardinality(LinesEmpty(i)) = 1
       /\ report.files[i].lines = 4
       /\ report.files[i].codeLines = 2
       /\ report.files[i].commentLines = 2
       /\ report.files[i].blankLines = 1

(***************************************************************************)
(* The two outcomes of verifyToken                                         *)
(***************************************************************************)
TimesRun(step) == Cardinality({k \in DOMAIN steps : steps[k] = step})

\* req.user as the decoded token of the request's header gives it
UserOfToken(decoded) ==
  [uid |-> decoded.uid, email |-> decoded.email, emailVerified |-> decoded.email_verified,
   name |-> decoded.name, picture |-> decoded.picture]

ExpectedUser ==
  IF req.headers.authorization = VStr(<<"B","e","a","r","e","r"," ","a","l","i","c","e">>)
    THEN <<UserOfToken(DecodedAlice)>>
  ELSE IF req.headers.authorization = VStr(<<"B","e","a","r","e","r"," ","b","o","b">>)
    THEN <<UserOfToken(DecodedBob)>>
  ELSE <<>>

\* C27: once verifyToken has run for a request, either it has sent one 401,
\* req.user is not set and no handler runs after it, or it has sent nothing,
\* req.user is the user of the verified token and the next handler runs, once;
\* req.user is set only by verifyToken and only for a token Firebase verified
C27_VerifyTokenOneOutcome ==
  /\ TimesRun("verifyToken") <= 1
  /\ reqUser # <<>> => TimesRun("verifyToken") = 1 /\ reqUser = ExpectedUser
  /\ TimesRun("verifyToken") = 1 =>
       \/ /\ reqUser = <<>>
          /\ ExpectedUser = <<>>
          /\ steps = <<"verifyToken">>
          /\ stage = "done"
          /\ Len(res) = 1
          /\ res[1].status = 401
       \/ /\ reqUser # <<>>
          /\ reqUser = ExpectedUser
          /\ stage = "handler" <=> steps = <<"verifyToken">>
          /\ stage = "handler" => res = <<>>
          /\ stage # "handler" => steps = <<"verifyToken", req.route>>
          /\ \A k \in DOMAIN res : res[k].status # 401
          /\ Len(res) <= 1

\* a request let through by verifyToken and answered by its handler, after
\* one the same process refused
C27_Witness ==
  /\ run = 2
  /\ prev.user = <<>>
  /\ Len(prev.res) = 1
  /\ prev.res[1].status = 401
  /\ steps = <<"verifyToken", "analyze">>
  /\ reqUser = <<UserOfToken(DecodedBob)>>
  /\ stage = "done"
  /\ Len(res) = 1
  /\ res[1].status = 200

(***************************************************************************)
(* Sums of the counts                                                      *)
(***************************************************************************)
RECURSIVE SumLanguages(_, _)
SumLanguages(entries, n) == IF n = 0 THEN 0 ELSE entries[n].val + SumLanguages(entries, n - 1)

\* the sum of the file-type counts; a count that is no number adds nothing
RECURSIVE SumFileTypes(_, _)
SumFileTypes(entries, n) ==
  IF n = 0 THEN 0
  ELSE (IF entries[n].val.isNum THEN entries[n].val.n ELSE 0) + SumFileTypes(entries, n - 1)

FilesWithSuffix == {i \in DOMAIN report.files : TextAfterLastDot(report.files[i].path) # <<>>}

\* the language counts of a returned report sum to its number of files
LanguagesSumToFiles ==
  Returned =>
    /\ report.summary.totalFiles = Len(report.files)
    /\ SumLanguages(report.statistics.languages, Len(report.statistics.languages))
         = report.summary.totalFiles

\* the file-type counts of a returned report are numbers that sum to its
\* number of files with a suffix
FileTypesSumToSuffixed ==
  Returned =>
    /\ \A m \in DOMAIN report.statistics.fileTypes : report.statistics.fileTypes[m].val.isNum
    /\ SumFileTypes(report.statistics.fileTypes, Len(report.statistics.fileTypes))
         = Cardinality(FilesWithSuffix)
    /\ SumFileTypes(report.statistics.fileTypes, Len(report.statistics.fileTypes))
         <= report.summary.totalFiles

\* C28: in every returned report the language counts sum to totalFiles, the
\* number of its files, and the file-type counts sum to the number of its
\* files that have a suffix, which is at most totalFiles
C28_CountsSumToFiles == LanguagesSumToFiles /\ FileTypesSumToSuffixed

(***************************************************************************)
(* The order of the checks of POST /api/auth/login                         *)
(***************************************************************************)
\* the request to signInWithPassword has been sent
SignInSent == stage = "signIn" \/ fetched # NoAnswer

HasCredentials ==
  /\ GetProp(req.body, KeyEmail).k = "string"
  /\ GetProp(req.body, KeyEmail).s # <<>>
  /\ GetProp(req.body, KeyPassword).k = "string"
  /\ GetProp(req.body, KeyPassword).s # <<>>

LoginOrder == <<"restrictToLocalhost", "login", "signIn">>

HandsOutTokens == \E k \in DOMAIN res : res[k].body.tokens # <<>>

\* C29: for a request to /api/auth/login the steps run in the order
\* restriction, validation, sign-in and at most one response is sent; the
\* sign-in request is sent only after the restriction let the request
\* through, with email and password present and the API key configured;
\* missing credentials are answered 400 Missing credentials before the key is
\* looked at, a missing key 500 Configuration error; tokens are in a response
\* only if the sign-in was accepted and its ID token verified; a refused
\* sign-in is answered 401 without tokens
C29_LoginChecksInOrder ==
  req.route = "login" =>
    /\ Len(steps) <= 3
    /\ steps = SubSeq(LoginOrder, 1, Len(steps))
    /\ Len(res) <= 1
    /\ SignInSent =>
         /\ SubSeq(steps, 1, 2) = <<"restrictToLocalhost", "login">>
         /\ HasCredentials
         /\ env.webApiKey
         /\ stage = "signIn" => res = <<>>
    /\ (Len(steps) >= 2 /\ ~HasCredentials) =>
         /\ steps = <<"restrictToLocalhost", "login">>
         /\ stage = "done"
         /\ Len(res) = 1
         /\ res[1].status = 400
         /\ res[1].body.error = <<"Missing credentials">>
    /\ (Len(steps) >= 2 /\ HasCredentials /\ ~env.webApiKey) =>
         /\ steps = <<"restrictToLocalhost", "login">>
         /\ stage = "done"
         /\ Len(res) = 1
         /\ res[1].status = 500
         /\ res[1].body.error = <<"Configuration error">>
    /\ HandsOutTokens =>
         /\ steps = LoginOrder
         /\ fetched.kind = "accepted"
         /\ fetched.idToken \in {TokenAlice, TokenBob}
         /\ res[1].status = 200
         /\ res[1].body.tokens[1].idToken = fetched.idToken
    /\ fetched.kind = "refused" =>
         /\ Len(res) = 1
         /\ res[1].status = 401
         /\ res[1].body.tokens = <<>>
         /\ res[1].body.user = <<>>

\* a login that passed the three checks, was accepted and handed out tokens
C29_Witness ==
  /\ req.route = "login"
  /\ steps = LoginOrder
  /\ stage = "done"
  /\ fetched.kind = "accepted"
  /\ fetched.idToken = TokenAlice
  /\ res[1].status = 200
  /\ res[1].body.tokens # <<>>

=============================================================================
